---------------------------- MODULE Spec2Model ----------------------------
(***************************************************************************)
(* Model of src/neo4j/app.py: the relation extractor (significant words,   *)
(* dependency triplets, fuzzy resolver, eight strategies, merge-dedup and  *)
(* coverage pass) and the per-key emotional state maps built by            *)
(* extract / extract_batch / add_state, and the EmotionalAnalyzer; of      *)
(* src/neo4j/neo4j_service.py: the request / response protocol and the     *)
(* emotional history analysis; of src/neo4j/hybrid_search.py:              *)
(* merge_results.                                                          *)
(*                                                                         *)
(* Words are strings, as in the source.  The annotator (spaCy) is an       *)
(* external collaborator: a sentence is given as its annotated tokens, and *)
(* the single-word lookups _get_lemma / _get_pos are a fixed lexicon.      *)
(***************************************************************************)
EXTENDS Naturals, Integers, Sequences, FiniteSets, TLC

(***************************************************************************)
(* Generic sequence helpers.                                               *)
(***************************************************************************)
Range(s) == {s[i] : i \in 1..Len(s)}

Indices(s) == [i \in 1..Len(s) |-> i]

RECURSIVE Concat(_)
Concat(ss) == IF ss = <<>> THEN <<>> ELSE Head(ss) \o Concat(Tail(ss))

\* Python's None.  No word of the model is this string.
None == "<None>"

\* Python truthiness of an Optional[str]: None and "" are falsy.
Truthy(x) == x # None /\ x # ""

\* Python's "a or b" on Optional[str].
OrElse(a, b) == IF Truthy(a) THEN a ELSE b

(***************************************************************************)
(* str.lower(), str.upper(), str.strip() on the characters the model uses. *)
(***************************************************************************)
UpperLetters == "ABCDEFGHIJKLMNOPQRSTUVWXYZ"
LowerLetters == "abcdefghijklmnopqrstuvwxyz"

CharAt(s, i) == SubSeq(s, i, i)

UpperSet == {CharAt(UpperLetters, i) : i \in 1..Len(UpperLetters)}
LowerSet == {CharAt(LowerLetters, i) : i \in 1..Len(LowerLetters)}

ToLowerTable ==
    [c \in UpperSet |-> CharAt(LowerLetters, CHOOSE i \in 1..Len(UpperLetters) : CharAt(UpperLetters, i) = c)]
ToUpperTable ==
    [c \in LowerSet |-> CharAt(UpperLetters, CHOOSE i \in 1..Len(LowerLetters) : CharAt(LowerLetters, i) = c)]

LowerChar(c) == IF c \in UpperSet THEN ToLowerTable[c] ELSE c

UpperChar(c) == IF c \in LowerSet THEN ToUpperTable[c] ELSE c

\* Python's str.lower()
RECURSIVE Lower(_)
Lower(s) == IF Len(s) = 0 THEN "" ELSE LowerChar(CharAt(s, 1)) \o Lower(SubSeq(s, 2, Len(s)))

RECURSIVE Upper(_)
Upper(s) == IF Len(s) = 0 THEN "" ELSE UpperChar(CharAt(s, 1)) \o Upper(SubSeq(s, 2, Len(s)))

IsSpace(c) == c = " "

RECURSIVE LStrip(_)
LStrip(s) == IF Len(s) > 0 /\ IsSpace(CharAt(s, 1)) THEN LStrip(SubSeq(s, 2, Len(s))) ELSE s

RECURSIVE RStrip(_)
RStrip(s) == IF Len(s) > 0 /\ IsSpace(CharAt(s, Len(s))) THEN RStrip(SubSeq(s, 1, Len(s) - 1)) ELSE s

Strip(s) == RStrip(LStrip(s))

\* RelationExtractor._normalize
Normalize(word) == Strip(Lower(word))

\* Python's word[:n]
Prefix(s, n) == SubSeq(s, 1, IF Len(s) < n THEN Len(s) ELSE n)

(***************************************************************************)
(* The annotator's single-word lexicon: what self.nlp(word)[0] answers for *)
(* the words of the model.  An unknown word is its own lemma.              *)
(***************************************************************************)
LexLemma(w) ==
    CASE w = "chats"    -> "chat"
      [] w = "noire"    -> "noir"
      [] w = "dort"     -> "dormir"
      [] w = "mange"    -> "manger"
      [] w = "mangeant" -> "manger"
      [] w = "veut"     -> "vouloir"
      [] w = "voit"     -> "voir"
      [] w = "marie"    -> "Marie"
      [] w = "une"      -> "un"
      [] OTHER          -> w

LexPos(w) ==
    CASE w \in {"chat", "chats", "pomme", "jardin", "jardins", "jardinier",
                 "chanteur", "chanteuses"}                           -> "NOUN"
      [] w \in {"noir", "noire", "grand"}                            -> "ADJ"
      [] w \in {"dort", "dormir", "mange", "manger", "mangeant",
                "veut", "vouloir", "voit", "voir", "avoir"}          -> "VERB"
      [] w \in {"marie", "Marie"}                                    -> "PROPN"
      [] w \in {"deux", "3"}                                         -> "NUM"
      [] w = "vite"                                                  -> "ADV"
      [] w \in {"le", "un", "une"}                                   -> "DET"
      [] w \in {"dans", "en", "des", "de"}                             -> "ADP"
      [] w \in {"il", "qui"}                                         -> "PRON"
      [] w = "et"                                                    -> "CCONJ"
      [] w \in {".", ","}                                            -> "PUNCT"
      [] Len(w) > 0 /\ Strip(w) = ""                                 -> "SPACE"
      [] OTHER                                                       -> "X"

\* RelationExtractor._get_pos: doc[0].pos_ if doc else None (the cache only
\* memoises a deterministic lookup).
GetPos(word) == IF word = "" THEN None ELSE LexPos(word)

\* RelationExtractor._get_lemma: doc[0].lemma_ if doc else word
GetLemma(word) == IF word = "" THEN word ELSE LexLemma(word)

\* spacy.lang.fr.stop_words.STOP_WORDS, restricted to the words of the model
fr_stop == {"le", "un", "une", "dans", "en", "il", "qui", "et", "avoir"}

\* token.is_punct
IsPunct(text) == text \in {".", ",", "!", "?"}

(***************************************************************************)
(* Annotated sentences.  A token is [text, lemma, pos, dep, head]; head is *)
(* the index of the governing token, a root being its own head.            *)
(***************************************************************************)
Tok(text, lemma, pos, dep, head) ==
    [text |-> text, lemma |-> lemma, pos |-> pos, dep |-> dep, head |-> head]

\* token.children: the tokens governed by token i, in document order
Children(doc, i) == SelectSeq(Indices(doc), LAMBDA j : j # i /\ doc[j].head = i)

\* self.nlp(text.lower()): the annotation of the lower-cased text
NlpLower(doc) == [i \in 1..Len(doc) |-> [doc[i] EXCEPT !.text = Lower(@)]]

\* RelationExtractor._extract_significant_words
ExtractSignificantWords(doc) ==
    LET low == NlpLower(doc)
        keep(i) == /\ low[i].text \notin fr_stop
                   /\ low[i].pos \notin {"PUNCT", "DET", "ADP", "AUX", "CCONJ", "SCONJ", "PRON"}
                   /\ ~IsPunct(low[i].text)
                   /\ Len(low[i].text) > 1
        kept == SelectSeq(Indices(low), keep)
    IN  [k \in 1..Len(kept) |-> low[kept[k]].text]

\* The "no direct relation" sentinel: the table holds the integer 0 and the
\* code only ever reads it through str(relation), i.e. as "0".
NoRelation == "0"

NamedPatterns ==
    { <<"amod", "ADJ", "EST">>, <<"amod", "VERB", "EST">>,
      <<"acl:relcl", "ADJ", "EST">>, <<"acl:relcl", "VERB", "CARACTERISE">>,
      <<"obl:mod", "NOUN", "LOCALISE">>, <<"xcomp", "VERB", "IMPLIQUE">>,
      <<"nummod", "NUM", "QUANTIFIE">>, <<"advcl", "VERB", "ASSOCIE">> }

ZeroPatterns ==
    { <<"det", "DET">>, <<"det", "ADP">>, <<"det", "ADV">>, <<"nsubj", "PROPN">>,
      <<"nsubj", "PRON">>, <<"nsubj", "NOUN">>, <<"case", "ADP">>, <<"nmod", "NOUN">>,
      <<"nmod", "ADJ">>, <<"obj", "NOUN">>, <<"obj", "PROPN">>, <<"obj", "PRON">>,
      <<"obj", "ADJ">>, <<"conj", "ADJ">>, <<"conj", "VERB">>, <<"conj", "NOUN">>,
      <<"conj", "PROPN">>, <<"acl", "ADJ">>, <<"acl", "VERB">>, <<"cc", "CCONJ">>,
      <<"advmod", "ADV">>, <<"advmod", "ADJ">>, <<"obl:arg", "NOUN">>,
      <<"obl:arg", "ADJ">>, <<"cop", "AUX">>, <<"expl:subj", "PRON">>,
      <<"expl:comp", "PRON">>, <<"dep", "VERB">>, <<"dep", "ADV">>, <<"dep", "PRON">>,
      <<"dep", "NOUN">>, <<"aux:tense", "AUX">>, <<"aux:tense", "PROPN">>,
      <<"aux:pass", "AUX">>, <<"flat:name", "ADJ">>, <<"flat:name", "NOUN">>,
      <<"xcomp", "NOUN">>, <<"xcomp", "ADJ">>, <<"mark", "ADP">>, <<"mark", "SCONJ">>,
      <<"mark", "ADV">>, <<"fixed", "SCONJ">>, <<"advcl", "NOUN">>, <<"iobj", "PRON">>,
      <<"ccomp", "VERB">>, <<"obl:agent", "NOUN">>, <<"obl:agent", "PROPN">> }

\* self.DEPENDENCY_PATTERNS
DEPENDENCY_PATTERNS ==
    [p \in ZeroPatterns \cup {<<n[1], n[2]>> : n \in NamedPatterns} |->
        IF p \in ZeroPatterns THEN NoRelation
        ELSE (CHOOSE n \in NamedPatterns : <<n[1], n[2]>> = p)[3]]

\* self.DEPENDENCY_PATTERNS.get(pattern, 0)
PatternGet(p) == IF p \in DOMAIN DEPENDENCY_PATTERNS THEN DEPENDENCY_PATTERNS[p] ELSE NoRelation

\* RelationExtractor._extract_triplets
ExtractTriplets(doc) ==
    LET ofToken(i) ==
            LET kids == SelectSeq(Children(doc, i), LAMBDA j : doc[j].dep # "punct")
            IN  [k \in 1..Len(kids) |->
                    <<doc[kids[k]].lemma,
                      PatternGet(<<doc[kids[k]].dep, doc[kids[k]].pos>>),
                      doc[doc[kids[k]].head].lemma>>]
    IN  Concat([i \in 1..Len(doc) |-> ofToken(i)])

(***************************************************************************)
(* The fuzzy resolver.                                                     *)
(***************************************************************************)
\* The first index in 1..n satisfying P; 0 if none (a loop returning at its
\* first success).
FirstIdx(n, P(_)) ==
    IF \E i \in 1..n : P(i)
    THEN CHOOSE i \in 1..n : P(i) /\ \A j \in 1..(i - 1) : ~P(j)
    ELSE 0

\* stage 2 of _find_in_significatifs (line 427)
LemmaMatch(word_norm, word_lemma, sig_norm, sig_lemma) ==
    \/ word_lemma = sig_lemma
    \/ word_norm = sig_lemma
    \/ word_lemma = sig_norm

\* stage 3 (lines 432-435)
SuffixMatch(word_norm, sig_norm) ==
    \/ word_norm \o "s" = sig_norm
    \/ sig_norm \o "s" = word_norm
    \/ word_norm \o "x" = sig_norm
    \/ sig_norm \o "x" = word_norm

\* stage 4 (lines 439-440)
PrefixMatch(word_norm, sig_norm) ==
    /\ Len(word_norm) >= 4
    /\ Len(sig_norm) >= 4
    /\ Prefix(word_norm, 4) = Prefix(sig_norm, 4)

\* The four loops merged into one: the first element of the list that matches
\* at any stage.
FindStagesInListOrder(significatifs, i1, i2, i3, i4) ==
    LET hits == {i1, i2, i3, i4} \ {0}
    IN  IF hits = {} THEN None
        ELSE significatifs[CHOOSE i \in hits : \A j \in hits : i <= j]

\* The four loops in order: the first stage with a hit returns its element.
FindStages(significatifs, i1, i2, i3, i4) ==
    IF i1 # 0 THEN significatifs[i1]
    ELSE IF i2 # 0 THEN significatifs[i2]
    ELSE IF i3 # 0 THEN significatifs[i3]
    ELSE IF i4 # 0 THEN significatifs[i4]
    ELSE None

FindNormalized(word_norm, word_lemma, significatifs, sig_norms, sig_lemmas) ==
    FindStages(significatifs,
        FirstIdx(Len(significatifs), LAMBDA i : sig_norms[i] = word_norm),
        FirstIdx(Len(significatifs),
                 LAMBDA i : LemmaMatch(word_norm, word_lemma, sig_norms[i], sig_lemmas[i])),
        FirstIdx(Len(significatifs), LAMBDA i : SuffixMatch(word_norm, sig_norms[i])),
        FirstIdx(Len(significatifs), LAMBDA i : PrefixMatch(word_norm, sig_norms[i])))

\* RelationExtractor._find_in_significatifs
FindInSignificatifs(word, significatifs) ==
    FindNormalized(Normalize(word), GetLemma(Normalize(word)), significatifs,
                   [i \in 1..Len(significatifs) |-> Normalize(significatifs[i])],
                   [i \in 1..Len(significatifs) |-> GetLemma(Normalize(significatifs[i]))])

\* Every string of a sentence the resolver can be asked about.
DocWords(doc) ==
    UNION { {doc[i].text, doc[i].lemma, Lower(doc[i].text)} : i \in 1..Len(doc) }

\* word |-> self._find_in_significatifs(word, significatifs), for the words
\* of one sentence: the strategies below take this table as "find".
Resolver(significatifs, doc) ==
    [w \in DocWords(doc) |-> FindInSignificatifs(w, significatifs)]

\* The table read in one direction only.
AnalyzePosOrdered(pos1, pos2) ==
    IF ~Truthy(pos1) \/ ~Truthy(pos2) THEN "ASSOCIE"
    ELSE IF pos1 = "PROPN" /\ pos2 = "VERB" THEN "FAIT"
    ELSE IF pos1 = "ADJ" /\ pos2 = "NOUN" THEN "EST"
    ELSE IF pos1 = "ADV" /\ pos2 = "VERB" THEN "MODIFIE"
    ELSE IF pos1 = "NOUN" /\ pos2 = "VERB" THEN "UTILISE"
    ELSE IF pos1 = "PROPN" /\ pos2 = "NOUN" THEN "POSSEDE"
    ELSE IF pos1 = "NOUN" /\ pos2 = "NOUN" THEN "RELIE"
    ELSE "ASSOCIE"

AnalyzePos(pos1, pos2) ==
    IF ~Truthy(pos1) \/ ~Truthy(pos2) THEN "ASSOCIE"
    ELSE IF pos1 = "PROPN" /\ pos2 = "VERB" THEN "FAIT"
    ELSE IF pos2 = "PROPN" /\ pos1 = "VERB" THEN "FAIT"
    ELSE IF pos1 = "ADJ" /\ pos2 = "NOUN" THEN "EST"
    ELSE IF pos2 = "ADJ" /\ pos1 = "NOUN" THEN "EST"
    ELSE IF pos1 = "ADV" /\ pos2 = "VERB" THEN "MODIFIE"
    ELSE IF pos2 = "ADV" /\ pos1 = "VERB" THEN "MODIFIE"
    ELSE IF pos1 = "NOUN" /\ pos2 = "VERB" THEN "UTILISE"
    ELSE IF pos2 = "NOUN" /\ pos1 = "VERB" THEN "UTILISE"
    ELSE IF pos1 = "PROPN" /\ pos2 = "NOUN" THEN "POSSEDE"
    ELSE IF pos2 = "PROPN" /\ pos1 = "NOUN" THEN "POSSEDE"
    ELSE IF pos1 = "NOUN" /\ pos2 = "NOUN" THEN "RELIE"
    ELSE "ASSOCIE"

\* RelationExtractor._analyze_semantic_relation
AnalyzeSemanticRelation(word1, word2) == AnalyzePos(GetPos(word1), GetPos(word2))

(***************************************************************************)
(* The eight strategies.  Each returns its candidates in the order the     *)
(* code appends them.  "find" is Resolver(significatifs, doc).             *)
(***************************************************************************)
\* The first element of idx (a sequence of indices) satisfying P, as a
\* sequence of length 0 or 1: a loop that breaks at its first success.
FirstIndex(idx, P(_)) ==
    IF \E k \in 1..Len(idx) : P(idx[k])
    THEN << idx[CHOOSE k \in 1..Len(idx) : P(idx[k]) /\ \A j \in 1..(k - 1) : ~P(idx[j])] >>
    ELSE <<>>

\* The candidate of a resolved triplet emitted child first whatever its kind.
OrientedChildFirst(sig1, rel_type, sig2) == <<sig1, rel_type, sig2>>

\* Lines 521-525: the candidate of a triplet whose two ends resolved.
Oriented(sig1, rel_type, sig2) ==
    IF rel_type = "IMPLIQUE" THEN <<sig2, rel_type, sig1>> ELSE <<sig1, rel_type, sig2>>

\* RelationExtractor._extract_direct_relations
ExtractDirectRelations(find, triplets, doc) ==
    LET \* the fallback of lines 526-534, for the triplet (word1, IMPLIQUE, word2)
        ofToken(i, word1, sig2) ==
            IF Lower(doc[i].lemma) = Lower(word1)
            THEN LET ok(j) == /\ doc[j].dep \in {"obj", "obl:arg", "obl:mod", "iobj"}
                              /\ Truthy(find[doc[j].text])
                              /\ find[doc[j].text] # sig2
                     hit == FirstIndex(Children(doc, i), ok)
                 IN  [k \in 1..Len(hit) |-> <<sig2, "CONCERNE", find[doc[hit[k]].text]>>]
            ELSE <<>>
        ofTriplet(word1, relation, word2, sig1, sig2, rel_type) ==
            IF relation = NoRelation THEN <<>>
            ELSE IF Truthy(sig1) /\ Truthy(sig2)
                 THEN << Oriented(sig1, rel_type, sig2) >>
            ELSE IF Truthy(sig2) /\ ~Truthy(sig1) /\ rel_type = "IMPLIQUE"
                 THEN Concat([i \in 1..Len(doc) |-> ofToken(i, word1, sig2)])
            ELSE <<>>
    IN  Concat([k \in 1..Len(triplets) |->
                  ofTriplet(triplets[k][1], triplets[k][2], triplets[k][3],
                            find[triplets[k][1]], find[triplets[k][3]],
                            Upper(triplets[k][2]))])

\* The value a variable holds after "for c in idx: if P(c): v = f(c)": f of
\* the last c satisfying P, None when there is none.
LastAssigned(idx, P(_), f(_)) ==
    IF \E k \in 1..Len(idx) : P(idx[k])
    THEN f(idx[CHOOSE k \in 1..Len(idx) : P(idx[k]) /\ \A j \in (k + 1)..Len(idx) : ~P(idx[j])])
    ELSE None

\* RelationExtractor._extract_possession_relations
ExtractPossessionRelations(find, doc) ==
    LET emit(sujet, objet) ==
            IF /\ Truthy(sujet) /\ Truthy(objet) /\ sujet # objet
               /\ GetPos(sujet) = "PROPN" /\ GetPos(objet) = "NOUN"
            THEN << <<sujet, "POSSEDE", objet>> >>
            ELSE <<>>
        ofToken(i) ==
            IF doc[i].pos # "VERB" THEN <<>>
            ELSE emit(LastAssigned(Children(doc, i),
                                   LAMBDA j : doc[j].dep = "nsubj",
                                   LAMBDA j : find[doc[j].text]),
                      LastAssigned(Children(doc, i),
                                   LAMBDA j : doc[j].dep # "nsubj" /\ doc[j].dep \in {"obj", "obl:arg"},
                                   LAMBDA j : find[doc[j].text]))
    IN  Concat([i \in 1..Len(doc) |-> ofToken(i)])

\* The keys of a dict in insertion order: each value at its first occurrence.
DistinctInOrder(s) ==
    LET first == SelectSeq(Indices(s), LAMBDA i : \A j \in 1..(i - 1) : s[j] # s[i])
    IN  [k \in 1..Len(first) |-> s[first[k]]]

\* RelationExtractor._extract_coordinated_attributes
ExtractCoordinatedAttributes(find, triplets) ==
    LET isEst(k) == /\ Upper(triplets[k][2]) = "EST"
                    /\ Truthy(find[triplets[k][1]])
                    /\ Truthy(find[triplets[k][3]])
        \* est_relations: objet -> attributs
        attributs(objet) ==
            { find[triplets[k][1]] :
                k \in {e \in 1..Len(triplets) : isEst(e) /\ find[triplets[e][3]] = objet} }
        ofTriplet(objet, attrs, relation, sig1, sig2) ==
            IF /\ relation = NoRelation
               /\ sig1 \in attrs
               /\ Truthy(sig2)
               /\ sig2 \notin attrs
               /\ GetPos(sig1) = GetPos(sig2)
            THEN << <<sig2, "EST", objet>> >>
            ELSE <<>>
        ofObjet(objet, attrs) ==
            Concat([k \in 1..Len(triplets) |->
                      ofTriplet(objet, attrs, triplets[k][2],
                                find[triplets[k][1]], find[triplets[k][3]])])
        ofObjets(objets) ==
            Concat([o \in 1..Len(objets) |-> ofObjet(objets[o], attributs(objets[o]))])
    IN  ofObjets(DistinctInOrder(
            [k \in 1..Len(SelectSeq(Indices(triplets), isEst)) |->
                find[triplets[SelectSeq(Indices(triplets), isEst)[k]][3]]]))

\* find(token.text) and, if that fails, find(token.lemma_)
FindTextOrLemma(find, tok) ==
    IF ~Truthy(find[tok.text]) THEN find[tok.lemma] ELSE find[tok.text]

\* RelationExtractor._extract_verb_complement_relations
ExtractVerbComplementRelations(find, doc) ==
    LET ofComplement(sig_verb, c, sig_inf) ==
            LET ok(g) == /\ doc[g].dep \in {"obj", "obl:arg", "obl:mod"}
                         /\ Truthy(find[doc[g].text])
                         /\ sig_verb # find[doc[g].text]
                hit == FirstIndex(Children(doc, c), ok)
            IN  IF Truthy(sig_inf) /\ sig_verb # sig_inf
                THEN << <<sig_verb, "IMPLIQUE", sig_inf>> >>
                ELSE IF ~Truthy(sig_inf)
                THEN [k \in 1..Len(hit) |-> <<sig_verb, "CONCERNE", find[doc[hit[k]].text]>>]
                ELSE <<>>
        ofChild(sig_verb, c) ==
            IF doc[c].dep \in {"xcomp", "ccomp"} /\ doc[c].pos = "VERB"
            THEN ofComplement(sig_verb, c, FindTextOrLemma(find, doc[c]))
            ELSE <<>>
        ofVerb(sig_verb, kids) ==
            IF Truthy(sig_verb)
            THEN Concat([k \in 1..Len(kids) |-> ofChild(sig_verb, kids[k])])
            ELSE <<>>
        ofToken(i) ==
            IF doc[i].pos # "VERB" THEN <<>>
            ELSE ofVerb(FindTextOrLemma(find, doc[i]), Children(doc, i))
    IN  Concat([i \in 1..Len(doc) |-> ofToken(i)])

\* RelationExtractor._extract_quantification_relations
ExtractQuantificationRelations(find, doc) ==
    LET ofNum(sig_num, sig_noun) ==
            LET ok(o) == /\ doc[o].pos \in {"NOUN", "PROPN", "VERB"}
                         /\ Truthy(find[doc[o].text])
                         /\ find[doc[o].text] # sig_noun
                hit == FirstIndex(Indices(doc), ok)
            IN  IF Truthy(sig_num) /\ Truthy(sig_noun) /\ sig_num # sig_noun
                THEN << <<sig_num, "QUANTIFIE", sig_noun>> >>
                ELSE IF Truthy(sig_noun) /\ ~Truthy(sig_num)
                THEN [k \in 1..Len(hit) |-> <<find[doc[hit[k]].text], "RELIE", sig_noun>>]
                ELSE <<>>
        ofToken(i) ==
            IF doc[i].pos = "NUM" /\ doc[doc[i].head].pos = "NOUN"
            THEN ofNum(find[doc[i].text], FindTextOrLemma(find, doc[doc[i].head]))
            ELSE <<>>
    IN  Concat([i \in 1..Len(doc) |-> ofToken(i)])

\* RelationExtractor._extract_relative_relations
ExtractRelativeRelations(find, doc) ==
    LET emit(sig_verb, sig_head) ==
            IF Truthy(sig_verb) /\ Truthy(sig_head) /\ sig_verb # sig_head
            THEN << <<sig_verb, "CARACTERISE", sig_head>> >>
            ELSE <<>>
        ofToken(i) ==
            IF doc[i].dep \in {"acl:relcl", "acl"}
            THEN emit(FindTextOrLemma(find, doc[i]), find[doc[doc[i].head].text])
            ELSE <<>>
    IN  Concat([i \in 1..Len(doc) |-> ofToken(i)])

\* RelationExtractor._extract_zero_relations
ExtractZeroRelations(find, triplets) ==
    LET ofTriplet(relation, sig1, sig2) ==
            IF relation = NoRelation /\ Truthy(sig1) /\ Truthy(sig2) /\ sig1 # sig2
            THEN << <<sig1, AnalyzeSemanticRelation(sig1, sig2), sig2>> >>
            ELSE <<>>
    IN  Concat([k \in 1..Len(triplets) |->
                  ofTriplet(triplets[k][2], find[triplets[k][1]], find[triplets[k][3]])])

location_preps == {"dans", "sur", "au", "à", "en", "chez", "vers", "sous", "devant", "derrière"}

\* RelationExtractor._extract_location_relations
ExtractLocationRelations(find, doc) ==
    LET emit(sig_obj, sig_location) ==
            IF Truthy(sig_obj) /\ Truthy(sig_location) /\ sig_obj # sig_location
            THEN << <<sig_obj, "LOCALISE", sig_location>> >>
            ELSE <<>>
        ofSiblings(i, sibs) ==
            Concat([k \in 1..Len(sibs) |->
                      emit(FindTextOrLemma(find, doc[sibs[k]]), FindTextOrLemma(find, doc[i]))])
        ofToken(i) ==
            IF /\ doc[i].dep \in {"obl:mod", "obl:arg", "nmod"}
               /\ \E c \in Range(Children(doc, i)) :
                     doc[c].dep = "case" /\ Lower(doc[c].text) \in location_preps
               /\ doc[doc[i].head].pos = "VERB"
            THEN ofSiblings(i, SelectSeq(Children(doc, doc[i].head),
                                         LAMBDA s : doc[s].dep \in {"obj", "nsubj"} /\ s # i))
            ELSE <<>>
    IN  Concat([i \in 1..Len(doc) |-> ofToken(i)])

(***************************************************************************)
(* Merge-dedup-cover pass.                                                 *)
(***************************************************************************)
\* all_relations: the strategies' candidates, concatenated in call order
\* The same candidates with the POS-pair fallback strategy moved to the front.
CandidatesZeroFirst(find, triplets, doc) ==
    ExtractZeroRelations(find, triplets)
    \o ExtractDirectRelations(find, triplets, doc)
    \o ExtractPossessionRelations(find, doc)
    \o ExtractCoordinatedAttributes(find, triplets)
    \o ExtractVerbComplementRelations(find, doc)
    \o ExtractQuantificationRelations(find, doc)
    \o ExtractRelativeRelations(find, doc)
    \o ExtractLocationRelations(find, doc)

\* Lines 482-490: the strategies' candidates, concatenated in call order.
AllCandidates(find, triplets, doc) ==
    ExtractDirectRelations(find, triplets, doc)
    \o ExtractPossessionRelations(find, doc)
    \o ExtractCoordinatedAttributes(find, triplets)
    \o ExtractVerbComplementRelations(find, doc)
    \o ExtractQuantificationRelations(find, doc)
    \o ExtractRelativeRelations(find, doc)
    \o ExtractZeroRelations(find, triplets)
    \o ExtractLocationRelations(find, doc)

\* "len(rel) == 3 and all(r and str(r).strip() for r in rel)"
WellFormedCandidate(rel) ==
    Len(rel) = 3 /\ \A k \in 1..3 : Truthy(rel[k]) /\ Strip(rel[k]) # ""

\* KeepIfNew without the test of the reversed key.
KeepIfKeyNew(acc, w1, kind, w2, significatifs) ==
    IF /\ w1 \in Range(significatifs)
       /\ w2 \in Range(significatifs)
       /\ <<w1, kind, w2>> \notin acc.seen
    THEN [seen |-> acc.seen \cup {<<w1, kind, w2>>}, unique |-> Append(acc.unique, <<w1, kind, w2>>)]
    ELSE acc

\* Lines 499-504 for one candidate resolved to (w1, kind, w2); acc is the
\* pair (seen, unique).
KeepIfNew(acc, w1, kind, w2, significatifs) ==
    IF /\ w1 \in Range(significatifs)
       /\ w2 \in Range(significatifs)
       /\ <<w1, kind, w2>> \notin acc.seen
       /\ <<w2, kind, w1>> \notin acc.seen
    THEN [seen |-> acc.seen \cup {<<w1, kind, w2>>}, unique |-> Append(acc.unique, <<w1, kind, w2>>)]
    ELSE acc

\* One iteration of the loop of lines 494-504.
MergeStep(acc, rel, significatifs, find) ==
    IF ~WellFormedCandidate(rel) THEN acc
    ELSE KeepIfNew(acc, OrElse(find[rel[1]], rel[1]), rel[2], OrElse(find[rel[3]], rel[3]),
                   significatifs)

RECURSIVE MergeLoop(_, _, _, _)
MergeLoop(acc, rels, significatifs, find) ==
    IF rels = <<>> THEN acc
    ELSE MergeLoop(MergeStep(acc, Head(rels), significatifs, find), Tail(rels),
                   significatifs, find)

\* The list "unique" after the loop of _extract_all_relations (lines 492-504)
MergeDedup(all_relations, significatifs, find) ==
    MergeLoop([seen |-> {}, unique |-> <<>>], all_relations, significatifs, find).unique

\* used = {r[0] for r in unique} | {r[2] for r in unique}
UsedWords(unique) == {r[1] : r \in Range(unique)} \cup {r[3] : r \in Range(unique)}

\* _cover_unused_words emitting the triplet's own words instead of the
\* vocabulary words they resolve to.
CoverWithTripletWords(significatifs, used, triplets, find) ==
    LET links(word, k) ==
            \/ (find[triplets[k][1]] = word /\ find[triplets[k][3]] \in used)
            \/ (find[triplets[k][3]] = word /\ find[triplets[k][1]] \in used)
        ofHit(hit) ==
            [h \in 1..Len(hit) |->
                <<triplets[hit[h]][1],
                  AnalyzeSemanticRelation(find[triplets[hit[h]][1]], find[triplets[hit[h]][3]]),
                  triplets[hit[h]][3]>>]
        ofWord(word) ==
            ofHit(FirstIndex(Indices(triplets), LAMBDA k : links(word, k)))
        ofUnused(unused) == Concat([u \in 1..Len(unused) |-> ofWord(unused[u])])
    IN  ofUnused(SelectSeq(significatifs, LAMBDA w : w \notin used))

\* RelationExtractor._cover_unused_words
CoverUnusedWords(significatifs, used, triplets, find) ==
    LET links(word, k) ==
            \/ (find[triplets[k][1]] = word /\ find[triplets[k][3]] \in used)
            \/ (find[triplets[k][3]] = word /\ find[triplets[k][1]] \in used)
        emit(sig1, sig2) == <<sig1, AnalyzeSemanticRelation(sig1, sig2), sig2>>
        ofHit(hit) ==
            [h \in 1..Len(hit) |-> emit(find[triplets[hit[h]][1]], find[triplets[hit[h]][3]])]
        ofWord(word) ==
            ofHit(FirstIndex(Indices(triplets), LAMBDA k : links(word, k)))
        ofUnused(unused) == Concat([u \in 1..Len(unused) |-> ofWord(unused[u])])
    IN  ofUnused(SelectSeq(significatifs, LAMBDA w : w \notin used))

\* Lines 506-509: the kept list followed by the coverage relations.
WithCoverage(unique, significatifs, triplets, find) ==
    unique \o CoverUnusedWords(significatifs, UsedWords(unique), triplets, find)

\* RelationExtractor._extract_all_relations
ExtractAllRelations(significatifs, triplets, doc) ==
    WithCoverage(MergeDedup(AllCandidates(Resolver(significatifs, doc), triplets, doc),
                            significatifs, Resolver(significatifs, doc)),
                 significatifs, triplets, Resolver(significatifs, doc))

(***************************************************************************)
(* Sentences.                                                              *)
(***************************************************************************)
\* "Le chat noir dort."
S_ChatNoir ==
    << Tok("Le", "le", "DET", "det", 2), Tok("chat", "chat", "NOUN", "nsubj", 4),
       Tok("noir", "noir", "ADJ", "amod", 2), Tok("dort", "dormir", "VERB", "ROOT", 4),
       Tok(".", ".", "PUNCT", "punct", 4) >>

\* "Marie mange une pomme."
S_Marie ==
    << Tok("Marie", "Marie", "PROPN", "nsubj", 2), Tok("mange", "manger", "VERB", "ROOT", 2),
       Tok("une", "un", "DET", "det", 4), Tok("pomme", "pomme", "NOUN", "obj", 2),
       Tok(".", ".", "PUNCT", "punct", 2) >>

\* "Marie veut manger."
S_Veut ==
    << Tok("Marie", "Marie", "PROPN", "nsubj", 2), Tok("veut", "vouloir", "VERB", "ROOT", 2),
       Tok("manger", "manger", "VERB", "xcomp", 2) >>

\* "deux chats"
S_Deux ==
    << Tok("deux", "deux", "NUM", "nummod", 2), Tok("chats", "chat", "NOUN", "ROOT", 2) >>

\* "le chat qui dort"
S_Relative ==
    << Tok("le", "le", "DET", "det", 2), Tok("chat", "chat", "NOUN", "ROOT", 2),
       Tok("qui", "qui", "PRON", "nsubj", 4), Tok("dort", "dormir", "VERB", "acl:relcl", 2) >>

\* "Marie voit un chat dans le jardin"
S_Jardin ==
    << Tok("Marie", "Marie", "PROPN", "nsubj", 2), Tok("voit", "voir", "VERB", "ROOT", 2),
       Tok("un", "un", "DET", "det", 4), Tok("chat", "chat", "NOUN", "obj", 2),
       Tok("dans", "dans", "ADP", "case", 7), Tok("le", "le", "DET", "det", 7),
       Tok("jardin", "jardin", "NOUN", "obl:mod", 2) >>

\* "Il mange en mangeant"
S_Mangeant ==
    << Tok("Il", "il", "PRON", "nsubj", 2), Tok("mange", "manger", "VERB", "ROOT", 2),
       Tok("en", "en", "ADP", "case", 4), Tok("mangeant", "manger", "VERB", "advcl", 2) >>

\* "Marie veut avoir une pomme"
S_Avoir ==
    << Tok("Marie", "Marie", "PROPN", "nsubj", 2), Tok("veut", "vouloir", "VERB", "ROOT", 2),
       Tok("avoir", "avoir", "VERB", "xcomp", 2), Tok("une", "un", "DET", "det", 5),
       Tok("pomme", "pomme", "NOUN", "obj", 3) >>

\* "3 chats dort"
S_Trois ==
    << Tok("3", "3", "NUM", "nummod", 2), Tok("chats", "chat", "NOUN", "nsubj", 3),
       Tok("dort", "dormir", "VERB", "ROOT", 3) >>

\* "chat noir, grand et noire"
S_Grand ==
    << Tok("chat", "chat", "NOUN", "ROOT", 1), Tok("noir", "noir", "ADJ", "amod", 1),
       Tok(",", ",", "PUNCT", "punct", 4), Tok("grand", "grand", "ADJ", "amod", 1),
       Tok("et", "et", "CCONJ", "cc", 6), Tok("noire", "noir", "ADJ", "conj", 4) >>

\* "chat   noir": a whitespace token between two words
S_Espace ==
    << Tok("chat", "chat", "NOUN", "ROOT", 1), Tok("  ", "  ", "SPACE", "dep", 1),
       Tok("noir", "noir", "ADJ", "amod", 1) >>

\* "chat noir   dort   ": two sentences, each followed by a whitespace token
S_DeuxEspaces ==
    << Tok("chat", "chat", "NOUN", "ROOT", 1), Tok("noir", "noir", "ADJ", "amod", 1),
       Tok("  ", "  ", "SPACE", "dep", 2), Tok("dort", "dormir", "VERB", "ROOT", 4),
       Tok("  ", "  ", "SPACE", "dep", 4) >>

\* "jardinier des jardins": the annotation gives "jardins" the lemma "jardin",
\* which the single-word lookup does not know.
S_Jardins ==
    << Tok("jardinier", "jardinier", "NOUN", "ROOT", 1), Tok("des", "de", "ADP", "case", 3),
       Tok("jardins", "jardin", "NOUN", "nmod", 1) >>

\* "chanteuses": annotated with the lemma "chanteur".
S_Chanteuses ==
    << Tok("chanteuses", "chanteur", "NOUN", "ROOT", 1), Tok("dort", "dormir", "VERB", "acl", 1) >>

\* "chat noir. grand et noire": two sentences
S_NoirGrand ==
    << Tok("chat", "chat", "NOUN", "ROOT", 1), Tok("noir", "noir", "ADJ", "amod", 1),
       Tok(".", ".", "PUNCT", "punct", 1), Tok("grand", "grand", "ADJ", "ROOT", 4),
       Tok("et", "et", "CCONJ", "cc", 6), Tok("noire", "noir", "ADJ", "conj", 4) >>

FixtureSentences ==
    { <<>>, S_ChatNoir, S_Marie, S_Veut, S_Deux, S_Relative, S_Jardin, S_Mangeant,
      S_Avoir, S_Trois, S_Grand, S_Espace, S_DeuxEspaces, S_Jardins, S_Chanteuses,
      S_NoirGrand }


(***************************************************************************)
(* WordWithEmotions and RelationWithEmotions.  A dict is a function from   *)
(* its keys; an Optional argument is <<>> for None and <<x>> for x.        *)
(***************************************************************************)
EmotionDim == 24

Nothing == <<>>
Some(x) == <<x>>

\* [0.0] * 24
ZeroEmotions == [i \in 1..EmotionDim |-> 0]

\* "if emotions is None: emotions = [0.0] * 24"
EmotionsOrZero(emotions) == IF emotions = Nothing THEN ZeroEmotions ELSE emotions[1]

\* d[key] = value
DictSet(d, key, value) ==
    [k \in DOMAIN d \cup {key} |-> IF k = key THEN value ELSE d[k]]

\* add_state adding the vector to the one already stored under the id.
WordAddStateSummed(emotional_states, sentence_id, emotions) ==
    DictSet(emotional_states, sentence_id,
            IF sentence_id \in DOMAIN emotional_states
            THEN [i \in 1..EmotionDim |->
                     emotional_states[sentence_id][i] + EmotionsOrZero(emotions)[i]]
            ELSE EmotionsOrZero(emotions))

\* WordWithEmotions.add_state, on the record's emotional_states
WordAddState(emotional_states, sentence_id, emotions) ==
    DictSet(emotional_states, sentence_id, EmotionsOrZero(emotions))

\* add_state keeping the vector already stored under the id.
RelationAddStateFirstWins(emotional_states, sentence_id, emotions) ==
    IF sentence_id \in DOMAIN emotional_states THEN emotional_states
    ELSE DictSet(emotional_states, sentence_id, EmotionsOrZero(emotions))

\* RelationWithEmotions.add_state, on the record's emotional_states
RelationAddState(emotional_states, sentence_id, emotions) ==
    DictSet(emotional_states, sentence_id, EmotionsOrZero(emotions))

RECURSIVE Sorted(_)
Sorted(S) ==
    IF S = {} THEN <<>>
    ELSE LET m == CHOOSE x \in S : \A y \in S : x <= y
         IN  <<m>> \o Sorted(S \ {m})

\* The sentence_ids property of both record classes
SentenceIds(emotional_states) == Sorted(DOMAIN emotional_states)

RECURSIVE Gcd(_, _)
Gcd(a, b) == IF b = 0 THEN a ELSE Gcd(b, a % b)

\* The quotient a / b as a fraction in lowest terms.
Ratio(a, b) == <<a \div Gcd(a, b), b \div Gcd(a, b)>>

RECURSIVE SumAt(_, _, _)
SumAt(emotional_states, ids, i) ==
    IF ids = {} THEN 0
    ELSE LET id == CHOOSE x \in ids : TRUE
         IN  emotional_states[id][i] + SumAt(emotional_states, ids \ {id}, i)

\* get_avg_emotions of both record classes
GetAvgEmotions(emotional_states) ==
    IF DOMAIN emotional_states = {} THEN [i \in 1..EmotionDim |-> Ratio(0, 1)]
    ELSE [i \in 1..EmotionDim |->
             Ratio(SumAt(emotional_states, DOMAIN emotional_states, i),
                   Cardinality(DOMAIN emotional_states))]

(***************************************************************************)
(* RelationExtractor: sentence ids, extract and extract_batch.             *)
(***************************************************************************)
\* The texts of the calls, with the annotation the pipeline gives them.
Texts == {"Le chat noir dort.", "le chat qui dort"}

Nlp(text) ==
    CASE text = "Le chat noir dort." -> S_ChatNoir
      [] text = "le chat qui dort"   -> S_Relative
      [] OTHER                       -> <<>>

\* Lines 285-288 of extract, (mots_significatifs, relations) of a text, with
\* the keys extract_batch records them under (lines 343 and 350).
Analysis(text) ==
    [mots |-> ExtractSignificantWords(Nlp(text)),
     relations |-> ExtractAllRelations(ExtractSignificantWords(Nlp(text)),
                                       ExtractTriplets(Nlp(text)), Nlp(text)),
     words |-> {Lower(w) : w \in Range(ExtractSignificantWords(Nlp(text)))},
     keys |-> {Lower(r[1]) \o "|" \o r[2] \o "|" \o Lower(r[3]) :
                  r \in Range(ExtractAllRelations(ExtractSignificantWords(Nlp(text)),
                                                  ExtractTriplets(Nlp(text)), Nlp(text)))}]

\* get_next_sentence_id: the incremented counter, which is also the id
GetNextSentenceId(counter) == counter + 1

\* Lines 291-309 of extract: the two lists of dicts
MotsAvecEmotions(mots, sentence_id, emotions) ==
    [k \in 1..Len(mots) |->
        [word |-> mots[k], sentence_ids |-> <<sentence_id>>,
         emotional_states |-> DictSet(<<>>, sentence_id, emotions)]]

RelationsAvecEmotions(relations, sentence_id, emotions) ==
    [k \in 1..Len(relations) |->
        [source |-> relations[k][1], relation |-> relations[k][2],
         target |-> relations[k][3], sentence_ids |-> <<sentence_id>>,
         emotional_states |-> DictSet(<<>>, sentence_id, emotions)]]

\* The merge of one word recreating the record at every sighting.
MergeWordAfresh(words_map, mot_dict, sentence_id, emotions) ==
    DictSet(words_map, Lower(mot_dict.word),
            [word |-> Lower(mot_dict.word),
             emotional_states |-> WordAddState(<<>>, sentence_id, emotions)])

\* Lines 342-346 of extract_batch for one word dict
MergeWord(words_map, mot_dict, sentence_id, emotions) ==
    LET word == Lower(mot_dict.word)
        rec  == IF word \in DOMAIN words_map THEN words_map[word]
                ELSE [word |-> word, emotional_states |-> <<>>]
    IN  DictSet(words_map, word,
                [rec EXCEPT !.emotional_states = WordAddState(@, sentence_id, emotions)])

\* f"{source.lower()}|{relation}|{target.lower()}"
RelationKey(rel_dict) ==
    Lower(rel_dict.source) \o "|" \o rel_dict.relation \o "|" \o Lower(rel_dict.target)

\* The merge of one relation keeping only a relation's first observation.
MergeRelationOnce(relations_map, rel_dict, sentence_id, emotions) ==
    IF RelationKey(rel_dict) \in DOMAIN relations_map THEN relations_map
    ELSE DictSet(relations_map, RelationKey(rel_dict),
                 [source |-> Lower(rel_dict.source), relation |-> rel_dict.relation,
                  target |-> Lower(rel_dict.target),
                  emotional_states |-> RelationAddState(<<>>, sentence_id, emotions)])

\* Lines 349-356 of extract_batch for one relation dict
MergeRelation(relations_map, rel_dict, sentence_id, emotions) ==
    LET key == RelationKey(rel_dict)
        rec == IF key \in DOMAIN relations_map THEN relations_map[key]
               ELSE [source |-> Lower(rel_dict.source), relation |-> rel_dict.relation,
                     target |-> Lower(rel_dict.target), emotional_states |-> <<>>]
    IN  DictSet(relations_map, key,
                [rec EXCEPT !.emotional_states = RelationAddState(@, sentence_id, emotions)])

RECURSIVE MergeWords(_, _, _, _)
MergeWords(words_map, mots, sentence_id, emotions) ==
    IF mots = <<>> THEN words_map
    ELSE MergeWords(MergeWord(words_map, Head(mots), sentence_id, emotions), Tail(mots),
                    sentence_id, emotions)

RECURSIVE MergeRelations(_, _, _, _)
MergeRelations(relations_map, relations, sentence_id, emotions) ==
    IF relations = <<>> THEN relations_map
    ELSE MergeRelations(MergeRelation(relations_map, Head(relations), sentence_id, emotions),
                        Tail(relations), sentence_id, emotions)
\* The longest generated sentence, in tokens.
MaxTokens == 3

\* Token kinds of the generated sentences: text, lemma, POS and the
\* dependency label the token carries when it is not a root.
TokenKinds ==
    { <<"chat", "chat", "NOUN", "nsubj">>,
      <<"chats", "chat", "NOUN", "obj">>,
      <<"noir", "noir", "ADJ", "amod">>,
      <<"dort", "dormir", "VERB", "acl">>,
      <<"  ", "  ", "SPACE", "dep">> }

\* Every token reaches a root (a token that is its own head) through its heads.
RECURSIVE ReachesRoot(_, _, _)
ReachesRoot(heads, i, fuel) ==
    \/ heads[i] = i
    \/ (fuel > 0 /\ ReachesRoot(heads, heads[i], fuel - 1))

IsForest(heads) == \A i \in DOMAIN heads : ReachesRoot(heads, i, Len(heads))

\* The sentence with the given token kinds and heads.
Sentence(kinds, heads) ==
    [i \in DOMAIN kinds |->
        Tok(kinds[i][1], kinds[i][2], kinds[i][3],
            IF heads[i] = i THEN "ROOT" ELSE kinds[i][4], heads[i])]

(***************************************************************************)
(* State.                                                                  *)
(***************************************************************************)
VARIABLES
    doc,             \* the annotated sentence handed to extract_legacy
    pc,              \* "input" before the call, "done" after it
    significatifs,   \* mots_significatifs
    triplets,        \* the dependency triplets
    find,            \* _find_in_significatifs on the sentence's words
    all_relations,   \* the strategies' candidates
    unique,          \* the list kept by the merge-dedup loop
    relations,       \* the list _extract_all_relations returns
    sentence_counter,  \* RelationExtractor._sentence_counter
    at,                \* "in_batch" inside the loop of extract_batch, "extract" or
                       \* "extract_batch" when that call returned last, else "idle"
    words_map,         \* words_map of the running or last returned extract_batch
    relations_map,     \* relations_map of the running or last returned extract_batch
    extract_result,    \* the pair of lists extract returned, while it is the last call
    log,               \* history: the observations recorded by extract and extract_batch
    last_write,        \* history: the last step's add_state calls and the maps before it
    direct_calls,      \* history: the number of add_state calls made by the caller
    counter_set,       \* history: reset_sentence_counter or start_sentence_id was used
    escaped,           \* history: the number of exceptions that escaped extract_batch
    batch_start,       \* history: start_sentence_id of the running or last extract_batch
    extracted,         \* what lines 285-288 of extract compute for each text of Texts
    history,           \* the list emotional_states.values() handed to the analyzers
    history_ids,       \* the list emotional_states.keys(): the ids in recording order
    analysis,          \* what EmotionalAnalyzer.analyze_history returned, if called
    service_analysis,  \* what Neo4jService._analyze_emotional_history returned, if called
    vector,            \* the list handed to compute_valence
    valence,           \* what compute_valence returned, if called
    writers,           \* the writers interleaving lines 341-356 on words_map / relations_map
    maps0,             \* history: the two maps before the writers began
    steps,             \* history: the writers' steps, in the order they were taken
    delivery,          \* the message the broker hands to the service's callback, if any
    outbox,            \* the messages the service published on the response exchange
    settled,           \* the deliveries the service acknowledged or rejected
    handled,           \* history: per delivery, what the handler did and what the client reads
    lexical_results,   \* merge_results: the lexical list it is given
    semantic_results,  \* merge_results: the semantic list it is given
    weights,           \* merge_results: weight_lexical and weight_semantic
    merged,            \* merge_results: what it returned, if called
    pos_pair           \* _analyze_semantic_relation: its two words and what it returned

relVars == <<doc, pc, significatifs, triplets, find, all_relations, unique, relations>>

storeVars == <<sentence_counter, at, words_map, relations_map, extract_result, log,
               last_write, direct_calls, counter_set, escaped, batch_start>>

analyzerVars == <<history, history_ids, analysis, service_analysis>>

valenceVars == <<vector, valence>>

writerVars == <<writers, maps0, steps>>

serviceVars == <<delivery, outbox, settled, handled>>

mergeVars == <<lexical_results, semantic_results, weights, merged>>

\* The variables of the components other than the extractor.
pairVars == <<pos_pair>>

restVars == <<analyzerVars, valenceVars, writerVars, serviceVars, mergeVars, pairVars>>

vars == <<relVars, storeVars, extracted, restVars>>

\* No analyzer call is under way.
AnalyzerIdle ==
    /\ history = <<>>
    /\ history_ids = <<>>
    /\ analysis = Nothing
    /\ service_analysis = Nothing

\* The components other than the extractor, not in use.
\* compute_valence is not called.
ValenceIdle ==
    /\ vector = <<>>
    /\ valence = Nothing

\* No writer is at work.
WritersIdle ==
    /\ writers = <<>>
    /\ maps0 = <<>>
    /\ steps = <<>>

\* The service has received nothing.
ServiceIdle ==
    /\ delivery = Nothing
    /\ outbox = <<>>
    /\ settled = <<>>
    /\ handled = <<>>

\* merge_results is not called.
MergeIdle ==
    /\ lexical_results = <<>>
    /\ semantic_results = <<>>
    /\ weights = <<>>
    /\ merged = Nothing

\* _analyze_semantic_relation is not called on its own.
PairIdle == pos_pair = <<>>

InitRest ==
    AnalyzerIdle /\ ValenceIdle /\ WritersIdle /\ ServiceIdle /\ MergeIdle /\ PairIdle

\* The last step called add_state on no record.
NoWrite(words, rels) ==
    [before_words |-> words, before_relations |-> rels, words |-> {}, relations |-> {},
     sentence_id |-> Nothing, emotions |-> ZeroEmotions]

\* RelationExtractor.__init__, before any call
InitStore ==
    /\ sentence_counter = 0
    /\ at = "idle"
    /\ words_map = <<>>
    /\ relations_map = <<>>
    /\ extract_result = [mots |-> <<>>, relations |-> <<>>]
    /\ log = <<>>
    /\ last_write = NoWrite(<<>>, <<>>)
    /\ direct_calls = 0
    /\ counter_set = FALSE
    /\ escaped = 0
    /\ batch_start = Nothing

InitRelations ==
    /\ \/ doc \in FixtureSentences
       \/ \E n \in 1..MaxTokens :
              \E kinds \in [1..n -> TokenKinds], heads \in {h \in [1..n -> 1..n] : IsForest(h)} :
                  doc = Sentence(kinds, heads)
    /\ pc = "input"
    /\ significatifs = <<>>
    /\ triplets = <<>>
    /\ find = <<>>
    /\ all_relations = <<>>
    /\ unique = <<>>
    /\ relations = <<>>
    /\ InitStore
    /\ extracted = <<>>
    /\ InitRest

\* RelationExtractor.extract_legacy; find, all_relations and unique expose the
\* intermediate values of _extract_all_relations.
ExtractLegacy ==
    /\ pc = "input"
    /\ significatifs' = ExtractSignificantWords(doc)
    /\ triplets' = ExtractTriplets(doc)
    /\ find' = Resolver(significatifs', doc)
    /\ all_relations' = AllCandidates(find', triplets', doc)
    /\ unique' = MergeDedup(all_relations', significatifs', find')
    /\ relations' = WithCoverage(unique', significatifs', triplets', find')
    /\ pc' = "done"
    /\ UNCHANGED <<doc, storeVars, extracted, restVars>>

NextRelations == ExtractLegacy

SpecRelations == InitRelations /\ [][NextRelations]_vars

(***************************************************************************)
(* The extractor's calls.                                                  *)
(***************************************************************************)
\* The most observations one behaviour records.
MaxObservations == 3

Vectors == { [i \in 1..EmotionDim |-> IF i = 1 THEN 1 ELSE 0] }
OptionalVectors == {Nothing} \cup {Some(v) : v \in Vectors}
\* The id callers supply lies ahead of a new extractor's counter, so that the
\* counter can reach it; add_state is also called with the first generated id.
SuppliedIds == {2}
AddStateIds == {1, 2}
OptionalIds == {Nothing} \cup {Some(id) : id \in SuppliedIds}
StartValues == {0}
OptionalStartIds == {Nothing, Some(1)}

\* text is a str: self.nlp(text) (line 286) and text.lower() (line 372) raise
\* for any other value.
IsStr(text) == text # None

\* The entries of extract_batch: dicts whose keys 'emotions' and
\* 'sentence_id' may be missing.
Entries == [text : Texts \cup {None}, emotions : OptionalVectors, sentence_id : OptionalIds]

Observation(text, sentence_id, emotions, auto) ==
    [text |-> text, sentence_id |-> sentence_id, emotions |-> emotions, auto |-> auto,
     current |-> TRUE]

\* The log when a new call begins: what it holds belongs to earlier calls.
Earlier(l) == [k \in 1..Len(l) |-> [l[k] EXCEPT !.current = FALSE]]

WordKeys(text) == extracted[text].words
RelationKeys(text) == extracted[text].keys

MayRecord == Len(log) + direct_calls + escaped < MaxObservations

InitCalls ==
    /\ doc = <<>>
    /\ pc = "idle"
    /\ significatifs = <<>>
    /\ triplets = <<>>
    /\ find = <<>>
    /\ all_relations = <<>>
    /\ unique = <<>>
    /\ relations = <<>>
    /\ InitStore
    /\ extracted = [text \in Texts |-> Analysis(text)]
    /\ InitRest

\* RelationExtractor.reset_sentence_counter
ResetSentenceCounter(start_value) ==
    /\ at # "in_batch"
    /\ sentence_counter' = start_value
    /\ counter_set' = TRUE
    /\ UNCHANGED <<at, words_map, relations_map, extract_result, log, last_write,
                   direct_calls, escaped, batch_start>>

\* RelationExtractor.extract called by the user
Extract(text, sentence_id, emotions) ==
    /\ at # "in_batch"
    /\ MayRecord
    /\ sentence_counter' =
           IF sentence_id = Nothing THEN GetNextSentenceId(sentence_counter)
           ELSE sentence_counter
    /\ log' = Append(Earlier(log),
                     Observation(text,
                                 IF sentence_id = Nothing THEN sentence_counter'
                                 ELSE sentence_id[1],
                                 EmotionsOrZero(emotions), sentence_id = Nothing))
    /\ extract_result' =
           [mots |-> MotsAvecEmotions(extracted[text].mots, log'[Len(log')].sentence_id,
                                      EmotionsOrZero(emotions)),
            relations |-> RelationsAvecEmotions(extracted[text].relations,
                                                log'[Len(log')].sentence_id,
                                                EmotionsOrZero(emotions))]
    /\ at' = "extract"
    /\ words_map' = <<>>
    /\ relations_map' = <<>>
    /\ last_write' = NoWrite(<<>>, <<>>)
    /\ batch_start' = Nothing
    /\ UNCHANGED <<direct_calls, counter_set, escaped>>

\* The words map of the previous call, in place of a new one.
KeptWordsMap == words_map

\* "words_map: Dict[str, WordWithEmotions] = {}"
NewWordsMap == <<>>

\* "relations_map: Dict[str, RelationWithEmotions] = {}"
NewRelationsMap == <<>>

\* extract_batch up to its loop (lines 327-331)
ExtractBatchBegin(start_sentence_id) ==
    /\ at # "in_batch"
    /\ sentence_counter' =
           IF start_sentence_id = Nothing THEN sentence_counter
           ELSE start_sentence_id[1] - 1
    /\ counter_set' = (counter_set \/ start_sentence_id # Nothing)
    /\ words_map' = NewWordsMap
    /\ relations_map' = NewRelationsMap
    /\ log' = Earlier(log)
    /\ at' = "in_batch"
    /\ last_write' = NoWrite(words_map', relations_map')
    /\ extract_result' = [mots |-> <<>>, relations |-> <<>>]
    /\ batch_start' = start_sentence_id
    /\ UNCHANGED <<direct_calls, escaped>>

\* One iteration of the loop of extract_batch (lines 333-356); the default of
\* entry.get('sentence_id', ...) is evaluated for every entry.
ExtractBatchEntry(entry) ==
    /\ at = "in_batch"
    /\ MayRecord
    /\ IsStr(entry.text)
    /\ sentence_counter' = GetNextSentenceId(sentence_counter)
    /\ log' = Append(log,
                     Observation(entry.text,
                                 IF entry.sentence_id = Nothing THEN sentence_counter'
                                 ELSE entry.sentence_id[1],
                                 EmotionsOrZero(entry.emotions), entry.sentence_id = Nothing))
    /\ words_map' =
           MergeWords(words_map,
                      MotsAvecEmotions(extracted[entry.text].mots, log'[Len(log')].sentence_id,
                                       log'[Len(log')].emotions),
                      log'[Len(log')].sentence_id, Some(log'[Len(log')].emotions))
    /\ relations_map' =
           MergeRelations(relations_map,
                          RelationsAvecEmotions(extracted[entry.text].relations,
                                                log'[Len(log')].sentence_id,
                                                log'[Len(log')].emotions),
                          log'[Len(log')].sentence_id, Some(log'[Len(log')].emotions))
    /\ last_write' =
           [before_words |-> words_map, before_relations |-> relations_map,
            words |-> WordKeys(entry.text), relations |-> RelationKeys(entry.text),
            sentence_id |-> Some(log'[Len(log')].sentence_id),
            emotions |-> log'[Len(log')].emotions]
    /\ UNCHANGED <<at, extract_result, direct_calls, counter_set, escaped, batch_start>>

\* The iteration of the loop of extract_batch on an entry whose text is not a
\* str: line 336 has taken the next id, extract raises at line 338, nothing
\* in the loop catches it, and the call ends without returning its maps.
ExtractBatchEntryRaises(entry) ==
    /\ at = "in_batch"
    /\ MayRecord
    /\ ~IsStr(entry.text)
    /\ sentence_counter' = GetNextSentenceId(sentence_counter)
    /\ escaped' = escaped + 1
    /\ at' = "raised"
    /\ words_map' = <<>>
    /\ relations_map' = <<>>
    /\ log' = Earlier(log)
    /\ last_write' = NoWrite(<<>>, <<>>)
    /\ UNCHANGED <<extract_result, direct_calls, counter_set, batch_start>>

\* The return of extract_batch (line 358)
ExtractBatchReturn ==
    /\ at = "in_batch"
    /\ at' = "extract_batch"
    /\ UNCHANGED <<sentence_counter, words_map, relations_map, extract_result, log,
                   last_write, direct_calls, counter_set, escaped, batch_start>>

\* The caller's add_state on a word record of the returned words map
WordAddStateCall(word, sentence_id, emotions) ==
    /\ at # "in_batch"
    /\ MayRecord
    /\ word \in DOMAIN words_map
    /\ words_map' =
           [words_map EXCEPT
               ![word].emotional_states = WordAddState(@, sentence_id, emotions)]
    /\ last_write' =
           [before_words |-> words_map, before_relations |-> relations_map,
            words |-> {word}, relations |-> {},
            sentence_id |-> Some(sentence_id), emotions |-> EmotionsOrZero(emotions)]
    /\ direct_calls' = direct_calls + 1
    /\ at' = "idle"
    /\ UNCHANGED <<sentence_counter, relations_map, extract_result, log, counter_set,
                   escaped, batch_start>>

\* The caller's add_state on a relation record of the returned relations map
RelationAddStateCall(key, sentence_id, emotions) ==
    /\ at # "in_batch"
    /\ MayRecord
    /\ key \in DOMAIN relations_map
    /\ relations_map' =
           [relations_map EXCEPT
               ![key].emotional_states = RelationAddState(@, sentence_id, emotions)]
    /\ last_write' =
           [before_words |-> words_map, before_relations |-> relations_map,
            words |-> {}, relations |-> {key},
            sentence_id |-> Some(sentence_id), emotions |-> EmotionsOrZero(emotions)]
    /\ direct_calls' = direct_calls + 1
    /\ at' = "idle"
    /\ UNCHANGED <<sentence_counter, words_map, extract_result, log, counter_set,
                   escaped, batch_start>>

Next ==
    \/ \E start_value \in StartValues :
           ResetSentenceCounter(start_value) /\ UNCHANGED <<relVars, extracted, restVars>>
    \/ \E text \in Texts, sentence_id \in OptionalIds, emotions \in OptionalVectors :
           Extract(text, sentence_id, emotions) /\ UNCHANGED <<relVars, extracted, restVars>>
    \/ \E start_sentence_id \in OptionalStartIds :
           ExtractBatchBegin(start_sentence_id) /\ UNCHANGED <<relVars, extracted, restVars>>
    \/ \E entry \in Entries : ExtractBatchEntry(entry) /\ UNCHANGED <<relVars, extracted, restVars>>
    \/ \E entry \in Entries :
           ExtractBatchEntryRaises(entry) /\ UNCHANGED <<relVars, extracted, restVars>>
    \/ ExtractBatchReturn /\ UNCHANGED <<relVars, extracted, restVars>>
    \/ \E word \in DOMAIN words_map, sentence_id \in AddStateIds, emotions \in OptionalVectors :
           WordAddStateCall(word, sentence_id, emotions) /\ UNCHANGED <<relVars, extracted, restVars>>
    \/ \E key \in DOMAIN relations_map, sentence_id \in AddStateIds,
          emotions \in OptionalVectors :
           RelationAddStateCall(key, sentence_id, emotions) /\ UNCHANGED <<relVars, extracted, restVars>>

Spec == InitCalls /\ [][Next]_vars

(***************************************************************************)
(* Properties of one extraction call (SpecRelations).                      *)
(***************************************************************************)
Vocabulary == Range(significatifs)

\* The unordered pair of a relation's ends.
Ends(r) == {r[1], r[3]}

\* C1 - Vocabulary containment: every relation of the list returned by
\* _extract_all_relations, kept by the merge pass or added by the coverage
\* step, has its source and its target in the sentence's significant words.
C1_VocabularyContainment ==
    pc = "done" =>
        \A k \in 1..Len(relations) :
            relations[k][1] \in Vocabulary /\ relations[k][3] \in Vocabulary

\* A call whose coverage step added a relation to a non-empty kept list.
C1_Witness ==
    /\ pc = "done"
    /\ Len(unique) > 0
    /\ Len(relations) > Len(unique)

\* C2 - Every returned relation has source # target: a candidate whose two
\* ends resolve to the same vocabulary word is dropped by the merge pass.
C2_SourceDiffersFromTarget ==
    pc = "done" => \A k \in 1..Len(relations) : relations[k][1] # relations[k][3]

ResolvedCandidates ==
    LET ok == SelectSeq(all_relations, WellFormedCandidate)
    IN  [k \in 1..Len(ok) |->
            <<OrElse(find[ok[k][1]], ok[k][1]), ok[k][2], OrElse(find[ok[k][3]], ok[k][3])>>]

InVocabulary(r) == r[1] \in Vocabulary /\ r[3] \in Vocabulary

CandidatesInStatedOrder ==
    LET stated == ExtractDirectRelations(find, triplets, doc)
                  \o ExtractPossessionRelations(find, doc)
                  \o ExtractCoordinatedAttributes(find, triplets)
                  \o ExtractVerbComplementRelations(find, doc)
                  \o ExtractQuantificationRelations(find, doc)
                  \o ExtractRelativeRelations(find, doc)
                  \o ExtractZeroRelations(find, triplets)
                  \o ExtractLocationRelations(find, doc)
        ok == SelectSeq(stated, WellFormedCandidate)
    IN  [k \in 1..Len(ok) |->
            <<OrElse(find[ok[k][1]], ok[k][1]), ok[k][2], OrElse(find[ok[k][3]], ok[k][3])>>]

Reversed(r) == <<r[3], r[2], r[1]>>

Occurrences(s, r) == Cardinality({k \in 1..Len(s) : s[k] = r})

\* C4 - Symmetry collapse: when the resolved candidates contain (A,k,B) at
\* position i and (B,k,A) at a later position j, exactly one of the two is
\* kept by the merge pass and it is the first in the stated candidate order:
\* the earliest candidate equal to either of them is kept once and the
\* reverse of that one is not kept.
C4_SymmetryCollapse ==
    pc = "done" =>
        LET cands == CandidatesInStatedOrder
        IN  \A i, j \in 1..Len(cands) :
                (/\ i < j
                 /\ InVocabulary(cands[i])
                 /\ cands[i][1] # cands[i][3]
                 /\ cands[j] = Reversed(cands[i])
                 /\ \A h \in 1..(i - 1) : cands[h] # cands[i] /\ cands[h] # cands[j])
                => /\ Occurrences(unique, cands[i]) = 1
                   /\ Occurrences(unique, cands[j]) = 0

\* A call whose candidates hold a relation and, later, its reverse.
C4_Witness ==
    /\ pc = "done"
    /\ \E i, j \in 1..Len(CandidatesInStatedOrder) :
           /\ i < j
           /\ InVocabulary(CandidatesInStatedOrder[i])
           /\ CandidatesInStatedOrder[i][1] # CandidatesInStatedOrder[i][3]
           /\ CandidatesInStatedOrder[j] = Reversed(CandidatesInStatedOrder[i])

(***************************************************************************)
(* Properties of the emotional states (Spec).                              *)
(***************************************************************************)
\* The last step recorded under an id the record already held, with the
\* given relation between the held vector and the recorded one.
Rerecorded(before, key, SameVector(_, _)) ==
    /\ last_write.sentence_id # Nothing
    /\ key \in DOMAIN before
    /\ last_write.sentence_id[1] \in DOMAIN before[key].emotional_states
    /\ SameVector(before[key].emotional_states[last_write.sentence_id[1]],
                  last_write.emotions)

Equal(v, w) == v = w
Differs(v, w) == v # w

SameHistory(before, after, key) ==
    /\ after[key].emotional_states = before[key].emotional_states
    /\ SentenceIds(after[key].emotional_states) = SentenceIds(before[key].emotional_states)
    /\ GetAvgEmotions(after[key].emotional_states)
           = GetAvgEmotions(before[key].emotional_states)

\* C5 - Idempotent re-observation: when add_state records a (key, id, vector)
\* that the key's record already holds, by a direct call or by an
\* extract_batch entry, the record's observation map, its sentence_ids and
\* its average are what they were.
C5_IdempotentReobservation ==
    /\ \A key \in last_write.words :
           Rerecorded(last_write.before_words, key, Equal)
               => SameHistory(last_write.before_words, words_map, key)
    /\ \A key \in last_write.relations :
           Rerecorded(last_write.before_relations, key, Equal)
               => SameHistory(last_write.before_relations, relations_map, key)

\* An extract_batch entry that recorded again, for its words and relations,
\* the non-zero observation an earlier entry recorded.
C5_Witness ==
    /\ at = "in_batch"
    /\ last_write.words # {} /\ last_write.relations # {}
    /\ last_write.emotions # ZeroEmotions
    /\ \A key \in last_write.words : Rerecorded(last_write.before_words, key, Equal)
    /\ \A key \in last_write.relations : Rerecorded(last_write.before_relations, key, Equal)

\* The record holds what it held, except the vector under the recorded id.
OnlyThatEntryReplaced(before, after, key) ==
    /\ DOMAIN after[key].emotional_states = DOMAIN before[key].emotional_states
    /\ Cardinality(DOMAIN after[key].emotional_states)
           = Cardinality(DOMAIN before[key].emotional_states)
    /\ \A id \in DOMAIN before[key].emotional_states :
           after[key].emotional_states[id] =
               IF id = last_write.sentence_id[1] THEN last_write.emotions
               ELSE before[key].emotional_states[id]

\* The records add_state was not called on are what they were.
OthersUntouched ==
    /\ \A key \in DOMAIN last_write.before_words \ last_write.words :
           key \in DOMAIN words_map /\ words_map[key] = last_write.before_words[key]
    /\ \A key \in DOMAIN last_write.before_relations \ last_write.relations :
           key \in DOMAIN relations_map
           /\ relations_map[key] = last_write.before_relations[key]

\* C6 - Duplicate observation id: recording an id the key already holds with
\* a different vector replaces that entry only; the key's other ids, the
\* number of its observations and every other key's record are unchanged.
C6_DuplicateIdReplacesOneEntry ==
    /\ \A key \in last_write.words :
           Rerecorded(last_write.before_words, key, Differs)
               => /\ OnlyThatEntryReplaced(last_write.before_words, words_map, key)
                  /\ OthersUntouched
    /\ \A key \in last_write.relations :
           Rerecorded(last_write.before_relations, key, Differs)
               => /\ OnlyThatEntryReplaced(last_write.before_relations, relations_map, key)
                  /\ OthersUntouched

\* A relation record holding two ids had one of them recorded again with a
\* different vector, while other records existed.
C6_Witness ==
    \E key \in last_write.relations :
        /\ Rerecorded(last_write.before_relations, key, Differs)
        /\ Cardinality(DOMAIN last_write.before_relations[key].emotional_states) >= 2
        /\ DOMAIN last_write.before_words \ last_write.words # {}

CurrentLog == SelectSeq(log, LAMBDA o : o.current)
EarlierLog == SelectSeq(log, LAMBDA o : ~o.current)

\* C7 - Append-only: no step removes a key from a map or an observation id
\* from a key, and every observation an extract_batch call recorded is still
\* in its maps, whatever add_state calls followed.
C7_AppendOnly ==
    /\ \A key \in DOMAIN last_write.before_words :
           /\ key \in DOMAIN words_map
           /\ DOMAIN last_write.before_words[key].emotional_states
                  \subseteq DOMAIN words_map[key].emotional_states
    /\ \A key \in DOMAIN last_write.before_relations :
           /\ key \in DOMAIN relations_map
           /\ DOMAIN last_write.before_relations[key].emotional_states
                  \subseteq DOMAIN relations_map[key].emotional_states
    /\ at # "extract" =>
           \A o \in Range(CurrentLog) :
               /\ \A key \in WordKeys(o.text) :
                      /\ key \in DOMAIN words_map
                      /\ o.sentence_id \in DOMAIN words_map[key].emotional_states
               /\ \A key \in RelationKeys(o.text) :
                      /\ key \in DOMAIN relations_map
                      /\ o.sentence_id \in DOMAIN relations_map[key].emotional_states

\* A step added an id to a word that already held another one.
C7_Witness ==
    \E key \in last_write.words :
        /\ key \in DOMAIN last_write.before_words
        /\ DOMAIN last_write.before_words[key].emotional_states # {}
        /\ DOMAIN last_write.before_words[key].emotional_states
               # DOMAIN words_map[key].emotional_states

\* The (key, id) pairs of the observations of a part of the log.
ObservationsOf(l) ==
    UNION { {<<key, l[k].sentence_id>> : key \in WordKeys(l[k].text) \cup RelationKeys(l[k].text)} :
            k \in 1..Len(l) }

\* The (key, id) pairs in the value the last call returned.
ResultObservations ==
    IF at = "extract"
    THEN UNION { {<<m.word, id>> : id \in DOMAIN m.emotional_states} :
                 m \in Range(extract_result.mots) }
         \cup UNION { {<<RelationKey(r), id>> : id \in DOMAIN r.emotional_states} :
                      r \in Range(extract_result.relations) }
    ELSE UNION { {<<key, id>> : id \in DOMAIN words_map[key].emotional_states} :
                 key \in DOMAIN words_map }
         \cup UNION { {<<key, id>> : id \in DOMAIN relations_map[key].emotional_states} :
                      key \in DOMAIN relations_map }

ResultKeys == {o[1] : o \in ResultObservations}

Returned == at \in {"extract", "extract_batch"}

C9_GeneratedIdsAreNew ==
    ~counter_set =>
        \A j \in 1..Len(log) :
            log[j].auto =>
                \A i \in 1..(j - 1) :
                    /\ log[i].sentence_id # log[j].sentence_id
                    /\ log[i].auto => log[i].sentence_id < log[j].sentence_id

EntriesOf(l, key) ==
    {k \in 1..Len(l) : key \in WordKeys(l[k].text) \cup RelationKeys(l[k].text)}

\* {id(e) -> emotions(e) : e an entry whose words or relations contain key}
ExpectedStates(l, key) ==
    [id \in {l[k].sentence_id : k \in EntriesOf(l, key)} |->
        l[CHOOSE k \in EntriesOf(l, key) : l[k].sentence_id = id].emotions]

DistinctIds(l) == \A i, j \in 1..Len(l) : i # j => l[i].sentence_id # l[j].sentence_id

\* C10 - extract_batch merges per key: over entries with pairwise distinct
\* ids, the returned maps have a record for exactly the lower-cased words,
\* and the source|kind|target keys, of the entries, and a record's
\* observation map is {id(e) -> emotions(e)} over the entries e holding it.
C10_BatchMergesPerKey ==
    (at = "extract_batch" /\ DistinctIds(CurrentLog)) =>
        /\ DOMAIN words_map = UNION {WordKeys(o.text) : o \in Range(CurrentLog)}
        /\ \A w \in DOMAIN words_map :
               /\ words_map[w].word = w
               /\ words_map[w].emotional_states = ExpectedStates(CurrentLog, w)
        /\ DOMAIN relations_map = UNION {RelationKeys(o.text) : o \in Range(CurrentLog)}
        /\ \A key \in DOMAIN relations_map :
               /\ RelationKey(relations_map[key]) = key
               /\ relations_map[key].emotional_states = ExpectedStates(CurrentLog, key)

\* A returned batch of two entries with different vectors and distinct ids,
\* one of them generated, sharing words and relations.
C10_Witness ==
    /\ at = "extract_batch"
    /\ Len(CurrentLog) = 2
    /\ DistinctIds(CurrentLog)
    /\ CurrentLog[1].emotions # CurrentLog[2].emotions
    /\ CurrentLog[1].auto # CurrentLog[2].auto
    /\ RelationKeys(CurrentLog[1].text) \cap RelationKeys(CurrentLog[2].text) # {}

(***************************************************************************)
(* Failures inside extract_batch (Spec).                                   *)
(***************************************************************************)
\* C11 - Batch extraction tolerates a malformed entry: no exception escapes
\* extract_batch, and when it returned, the observations of every entry that
\* could be extracted are in the returned maps.
C11_BatchToleratesFailure ==
    /\ escaped = 0
    /\ at # "raised"
    /\ at = "extract_batch" =>
           \A o \in Range(CurrentLog) :
               /\ \A key \in WordKeys(o.text) :
                      o.sentence_id \in DOMAIN words_map[key].emotional_states
               /\ \A key \in RelationKeys(o.text) :
                      o.sentence_id \in DOMAIN relations_map[key].emotional_states

(***************************************************************************)
(* Sentences whose head references are cyclic (SpecMalformed).             *)
(***************************************************************************)
\* The head references of a sentence.
HeadsOf(d) == [i \in DOMAIN d |-> d[i].head]

\* Some token of the sentence reaches no root: its heads run into a cycle.
IsCyclic(d) == ~IsForest(HeadsOf(d))

\* extract_legacy is handed a sentence with cyclic head references.
InitMalformed ==
    /\ \E n \in 2..MaxTokens :
           \E kinds \in [1..n -> TokenKinds], heads \in {h \in [1..n -> 1..n] : ~IsForest(h)} :
               doc = Sentence(kinds, heads)
    /\ pc = "input"
    /\ significatifs = <<>>
    /\ triplets = <<>>
    /\ find = <<>>
    /\ all_relations = <<>>
    /\ unique = <<>>
    /\ relations = <<>>
    /\ InitStore
    /\ extracted = <<>>
    /\ InitRest

SpecMalformed == InitMalformed /\ [][NextRelations]_vars

RatZero == Ratio(0, 1)
RatOne == Ratio(1, 1)
RatInt(k) == Ratio(k, 1)

RatAdd(p, q) == Ratio(p[1] * q[2] + q[1] * p[2], p[2] * q[2])
RatSub(p, q) == Ratio(p[1] * q[2] - q[1] * p[2], p[2] * q[2])
RatMul(p, q) == Ratio(p[1] * q[1], p[2] * q[2])
RatLess(p, q) == p[1] * q[2] < q[1] * p[2]

\* p / q for q # 0
RatDiv(p, q) ==
    IF q[1] > 0 THEN Ratio(p[1] * q[2], p[2] * q[1])
    ELSE Ratio(0 - p[1] * q[2], 0 - p[2] * q[1])

RatMin(p, q) == IF RatLess(q, p) THEN q ELSE p
RatMax(p, q) == IF RatLess(p, q) THEN q ELSE p

\* The sequence as a list of values, each element evaluated once.
List(values) == SubSeq(values, 1, Len(values))

\* sum() of a list of floats
RECURSIVE RatSum(_)
RatSum(values) == IF values = <<>> THEN RatZero ELSE RatAdd(Head(values), RatSum(Tail(values)))

\* max() of a non-empty list of floats
RECURSIVE MaxOf(_)
MaxOf(values) ==
    IF Len(values) = 1 THEN values[1] ELSE RatMax(Head(values), MaxOf(Tail(values)))

\* A float comparison x > threshold: at an exact tie of the real values the
\* rounding of the float computation decides, either way.
Exceeds(x, threshold, tie) == RatLess(threshold, x) \/ (x = threshold /\ tie)

\* x < threshold, likewise
Below(x, threshold, tie) == RatLess(x, threshold) \/ (x = threshold /\ tie)

EMOTION_NAMES ==
    << "joie", "confiance", "peur", "surprise", "tristesse",
       "dégoût", "colère", "anticipation", "sérénité", "intérêt",
       "acceptation", "appréhension", "distraction", "ennui", "contrariété",
       "pensivité", "extase", "admiration", "terreur", "étonnement",
       "chagrin", "aversion", "rage", "vigilance" >>

\* str.capitalize() on the emotion names
Capitalize(s) ==
    IF Len(s) = 0 THEN ""
    ELSE (IF CharAt(s, 1) = "é" THEN "É" ELSE UpperChar(CharAt(s, 1)))
             \o Lower(SubSeq(s, 2, Len(s)))

\* emotions.index(max(emotions)), an index from 0
IndexOfMax(emotions) ==
    (CHOOSE i \in 1..Len(emotions) :
        /\ \A j \in 1..Len(emotions) : ~RatLess(emotions[i], emotions[j])
        /\ \A j \in 1..(i - 1) : RatLess(emotions[j], emotions[i])) - 1

\* EmotionalAnalyzer.get_dominant
GetDominant(emotions) ==
    IF Len(emotions) = 0 \/ \A i \in 1..Len(emotions) : emotions[i] = RatZero THEN "Neutre"
    ELSE IF IndexOfMax(emotions) < Len(EMOTION_NAMES)
         THEN Capitalize(EMOTION_NAMES[IndexOfMax(emotions) + 1])
         ELSE "Inconnu"

positive_indices == <<0, 1, 8, 9, 10, 16, 17>>
negative_indices == <<2, 4, 5, 6, 11, 13, 20, 21, 22>>

\* [emotions[i] for i in indices if i < len(emotions)]
ValuesAt(emotions, indices) ==
    LET present == SelectSeq(indices, LAMBDA i : i < Len(emotions))
    IN  List([k \in 1..Len(present) |-> emotions[present[k] + 1]])

\* The valence with the positive and negative sums exchanged.
ComputeValenceSwapped(emotions) ==
    IF Len(emotions) = 0 THEN RatZero
    ELSE LET positive == RatSum(ValuesAt(emotions, negative_indices))
             negative == RatSum(ValuesAt(emotions, positive_indices))
             total    == RatAdd(positive, negative)
         IN  IF total = RatZero THEN RatZero ELSE RatDiv(RatSub(positive, negative), total)

\* EmotionalAnalyzer.compute_valence
ComputeValence(emotions) ==
    IF Len(emotions) = 0 THEN RatZero
    ELSE LET positive == RatSum(ValuesAt(emotions, positive_indices))
             negative == RatSum(ValuesAt(emotions, negative_indices))
             total    == RatAdd(positive, negative)
         IN  IF total = RatZero THEN RatZero ELSE RatDiv(RatSub(positive, negative), total)

\* EmotionalAnalyzer.compute_intensity
ComputeIntensity(emotions) ==
    IF Len(emotions) = 0 THEN RatZero
    ELSE RatMin(RatOne,
                RatMul(RatDiv(RatSum(emotions), RatInt(Len(emotions))), RatInt(2)))

\* The column i of the history
Column(emotions_array, i) ==
    List([k \in 1..Len(emotions_array) |-> emotions_array[k][i]])

\* np.mean of a list of floats
MeanOf(values) == RatDiv(RatSum(values), RatInt(Len(values)))

\* np.mean(emotions_array, axis=0).tolist()
MeanEmotions(emotions_array) ==
    List([i \in 1..Len(emotions_array[1]) |-> MeanOf(Column(emotions_array, i))])

\* The sample variance, dividing by n - 1 (ddof=1).
VarOfSample(values) ==
    LET mean == MeanOf(values)
    IN  IF Len(values) < 2 THEN RatZero
        ELSE RatDiv(RatSum(List([k \in 1..Len(values) |->
                                    RatMul(RatSub(values[k], mean), RatSub(values[k], mean))])),
                    RatInt(Len(values) - 1))

\* np.var of a list of floats: the mean of the squared deviations
VarOf(values) ==
    LET mean == MeanOf(values)
    IN  MeanOf(List([k \in 1..Len(values) |->
                       RatMul(RatSub(values[k], mean), RatSub(values[k], mean))]))

\* float(np.mean(np.var(emotions_array, axis=0)))
MeanVariance(emotions_array) ==
    MeanOf(List([i \in 1..Len(emotions_array[1]) |-> VarOf(Column(emotions_array, i))]))

\* np.polyfit(range(len(valences)), valences, 1)[0]: the least-squares slope
\* of at least two points
Polyfit1(valences) ==
    LET n   == Len(valences)
        xs  == List([k \in 1..n |-> RatInt(k - 1)])
        sx  == RatSum(xs)
        sxx == RatSum(List([k \in 1..n |-> RatMul(xs[k], xs[k])]))
        sy  == RatSum(valences)
        sxy == RatSum(List([k \in 1..n |-> RatMul(xs[k], valences[k])]))
    IN  RatDiv(RatSub(RatMul(RatInt(n), sxy), RatMul(sx, sy)),
               RatSub(RatMul(RatInt(n), sxx), RatMul(sx, sx)))

\* Lines 158-165 of analyze_history, the same as 1259-1266 of the service
ClassifyTrend(trend, variance, ties) ==
    IF Exceeds(trend, Ratio(1, 10), ties.trend) THEN "ascending"
    ELSE IF Below(trend, Ratio(-1, 10), ties.trend) THEN "descending"
    ELSE IF Exceeds(variance, Ratio(3, 10), ties.variance) THEN "volatile"
    ELSE "stable"

\* The trajectory classified from two observations on.
TrajectoryFromTwo(emotions_array, variance, ties) ==
    IF Len(emotions_array) >= 2
    THEN ClassifyTrend(Polyfit1(List([k \in 1..Len(emotions_array) |->
                                         ComputeValence(emotions_array[k])])),
                       variance, ties)
    ELSE "stable"

\* Lines 155-167 of analyze_history
Trajectory(emotions_array, variance, ties) ==
    IF Len(emotions_array) >= 3
    THEN ClassifyTrend(Polyfit1(List([k \in 1..Len(emotions_array) |->
                                         ComputeValence(emotions_array[k])])),
                       variance, ties)
    ELSE "stable"

\* Line 170 of analyze_history
trauma_indices == <<2, 4, 5, 6, 11, 20, 21, 22>>

\* float(np.mean([max(te) if te else 0 for te in trauma_emotions]))
TraumaScore(emotions_array, indices) ==
    MeanOf(List([k \in 1..Len(emotions_array) |->
                    IF ValuesAt(emotions_array[k], indices) = <<>> THEN RatZero
                    ELSE MaxOf(ValuesAt(emotions_array[k], indices))]))

\* Defaults that call an unseen key unstable.
UnstableAnalysis ==
    [avg_emotions |-> [i \in 1..EmotionDim |-> RatZero], variance |-> RatZero,
     stability |-> RatZero, trajectory |-> "volatile", trauma_score |-> RatZero,
     dominant_emotion |-> "Neutre", avg_valence |-> RatZero, avg_intensity |-> RatZero,
     emotion_count |-> 0]

\* Lines 138-148 of analyze_history
NeutralAnalysis ==
    [avg_emotions |-> [i \in 1..EmotionDim |-> RatZero], variance |-> RatZero,
     stability |-> RatOne, trajectory |-> "stable", trauma_score |-> RatZero,
     dominant_emotion |-> "Neutre", avg_valence |-> RatZero, avg_intensity |-> RatZero,
     emotion_count |-> 0]

\* EmotionalAnalyzer.analyze_history
AnalyzeHistory(emotions_array, ties) ==
    IF emotions_array = <<>> THEN NeutralAnalysis
    ELSE LET avg_emotions == MeanEmotions(emotions_array)
             variance     == MeanVariance(emotions_array)
         IN  [avg_emotions     |-> avg_emotions,
              variance         |-> variance,
              stability        |-> RatMax(RatZero,
                                          RatSub(RatOne, RatMul(variance, RatInt(2)))),
              trajectory       |-> Trajectory(emotions_array, variance, ties),
              trauma_score     |-> TraumaScore(emotions_array, trauma_indices),
              dominant_emotion |-> GetDominant(avg_emotions),
              avg_valence      |-> ComputeValence(avg_emotions),
              avg_intensity    |-> ComputeIntensity(avg_emotions),
              emotion_count    |-> Len(emotions_array)]

\* Lines 1211-1218 of _analyze_emotional_history
ServiceNeutralAnalysis ==
    [dominant_emotion |-> "Neutre", avg_valence |-> RatZero, stability |-> RatOne,
     trajectory |-> "stable", trauma_score |-> RatZero, emotion_count |-> 0]

\* Lines 1237-1241: the dominant emotion of the service
ServiceDominant(avg_emotions) ==
    IF \A i \in 1..Len(avg_emotions) : avg_emotions[i] = RatZero THEN "Neutre"
    ELSE IF IndexOfMax(avg_emotions) < Len(EMOTION_NAMES)
         THEN Capitalize(EMOTION_NAMES[IndexOfMax(avg_emotions) + 1])
         ELSE "Inconnu"

\* Lines 1244-1247 and 1253-1257: the valence of the service
ServiceValence(emotions) ==
    LET positive == RatSum(ValuesAt(emotions, positive_indices))
        negative == RatSum(ValuesAt(emotions, negative_indices))
        total    == RatAdd(positive, negative)
    IN  IF RatLess(RatZero, total) THEN RatDiv(RatSub(positive, negative), total)
        ELSE RatZero

\* Lines 1250-1268 of _analyze_emotional_history
ServiceTrajectory(emotions_list, variance, ties) ==
    IF Len(emotions_list) >= 3
    THEN ClassifyTrend(Polyfit1(List([k \in 1..Len(emotions_list) |->
                                         ServiceValence(emotions_list[k])])),
                       variance, ties)
    ELSE "stable"

\* Neo4jService._analyze_emotional_history
AnalyzeEmotionalHistory(emotions_list, ties) ==
    IF emotions_list = <<>> THEN ServiceNeutralAnalysis
    ELSE LET avg_emotions == MeanEmotions(emotions_list)
             variance     == MeanVariance(emotions_list)
         IN  [dominant_emotion |-> ServiceDominant(avg_emotions),
              avg_valence      |-> ServiceValence(avg_emotions),
              stability        |-> RatMax(RatZero,
                                          RatSub(RatOne, RatMul(variance, RatInt(2)))),
              trajectory       |-> ServiceTrajectory(emotions_list, variance, ties),
              trauma_score     |-> TraumaScore(emotions_list, negative_indices),
              emotion_count    |-> Len(emotions_list)]

(***************************************************************************)
(* The analyzers applied to a history (SpecAnalyzer).                      *)
(***************************************************************************)
\* The longest history analysed.
MaxHistory == 3

\* The vector with the given joie (index 0) and peur (index 2), else 0.0
Emotions(joie, peur) ==
    [i \in 1..EmotionDim |-> IF i = 1 THEN joie ELSE IF i = 3 THEN peur ELSE RatZero]

\* The vector with the given ennui (index 13), else 0.0
Ennui(ennui) == [i \in 1..EmotionDim |-> IF i = 14 THEN ennui ELSE RatZero]

\* The observations of the histories: the zero vector, vectors of valence
\* 0.1, 0.3, 0.5 and 0.9, a vector of ennui alone, and a vector outside [0, 1]
\* (nothing checks the range), which lets the variance pass 0.3.
HistoryVectors ==
    { Emotions(RatZero, RatZero),
      Ennui(Ratio(1, 2)),
      Emotions(Ratio(11, 20), Ratio(9, 20)),
      Emotions(Ratio(13, 20), Ratio(7, 20)),
      Emotions(Ratio(15, 20), Ratio(5, 20)),
      Emotions(Ratio(19, 20), Ratio(1, 20)),
      [i \in 1..EmotionDim |-> RatInt(2)] }

\* How the two float comparisons come out at an exact tie.
Ties == [trend : BOOLEAN, variance : BOOLEAN]

\* The extractor is not in use.
ExtractorIdle ==
    /\ doc = <<>>
    /\ pc = "idle"
    /\ significatifs = <<>>
    /\ triplets = <<>>
    /\ find = <<>>
    /\ all_relations = <<>>
    /\ unique = <<>>
    /\ relations = <<>>
    /\ InitStore
    /\ extracted = <<>>

InitAnalyzer ==
    /\ ExtractorIdle
    /\ \E n \in 0..MaxHistory :
           /\ history \in [1..n -> HistoryVectors]
           /\ history_ids = [k \in 1..n |-> k]
    /\ analysis = Nothing
    /\ service_analysis = Nothing
    /\ ValenceIdle
    /\ WritersIdle
    /\ ServiceIdle
    /\ MergeIdle
    /\ PairIdle

\* A call of EmotionalAnalyzer.analyze_history on the history
AnalyzeHistoryCall(ties) ==
    /\ analysis = Nothing
    /\ analysis' = Some(AnalyzeHistory(history, ties))
    /\ UNCHANGED <<history, history_ids, service_analysis>>

\* A call of Neo4jService._analyze_emotional_history on the history
AnalyzeEmotionalHistoryCall(ties) ==
    /\ service_analysis = Nothing
    /\ service_analysis' = Some(AnalyzeEmotionalHistory(history, ties))
    /\ UNCHANGED <<history, history_ids, analysis>>

NextAnalyzer ==
    \/ \E ties \in Ties :
           AnalyzeHistoryCall(ties) /\ UNCHANGED <<relVars, storeVars, extracted, valenceVars, writerVars, serviceVars, mergeVars, pairVars>>
    \/ \E ties \in Ties :
           AnalyzeEmotionalHistoryCall(ties) /\ UNCHANGED <<relVars, storeVars, extracted, valenceVars, writerVars, serviceVars, mergeVars, pairVars>>

SpecAnalyzer == InitAnalyzer /\ [][NextAnalyzer]_vars

(***************************************************************************)
(* Properties of the analyzers (SpecAnalyzer).                             *)
(***************************************************************************)
\* The fields both analyzers return are the neutral defaults.
IsNeutral(a) ==
    /\ a.dominant_emotion = "Neutre"
    /\ a.avg_valence = RatZero
    /\ a.stability = RatOne
    /\ a.trajectory = "stable"
    /\ a.trauma_score = RatZero
    /\ a.emotion_count = 0

\* C13 - Neutral default: analysing zero observations returns dominant
\* 'Neutre', valence 0.0, stability 1.0, trajectory 'stable', trauma score
\* 0.0 and count 0, from analyze_history and from
\* _analyze_emotional_history.
C13_NeutralDefault ==
    history = <<>> =>
        /\ analysis # Nothing => IsNeutral(analysis[1])
        /\ service_analysis # Nothing => IsNeutral(service_analysis[1])

\* Both analyzers returned for the empty history.
C13_Witness ==
    /\ history = <<>>
    /\ analysis # Nothing /\ IsNeutral(analysis[1])
    /\ service_analysis # Nothing /\ IsNeutral(service_analysis[1])

\* The valences of the observations, in order.
Valences == List([k \in 1..Len(history) |-> ComputeValence(history[k])])

\* The least-squares slope of y over x = 0, 1, ..., n - 1 in centred form:
\* 12 * sum((k - (n + 1) / 2) * y[k]) / (n * (n * n - 1)), k from 1.
CentredSlope(y) ==
    LET n == Len(y)
    IN  RatDiv(RatMul(RatInt(6),
                      RatSum(List([k \in 1..n |-> RatMul(RatInt(2 * k - (n + 1)), y[k])]))),
               RatInt(n * (n * n - 1)))

\* The mean over the dimensions of mean(x * x) - mean(x) * mean(x).
MeanSquareVariance ==
    LET n == Len(history)
        perDim(i) ==
            RatSub(RatDiv(RatSum(List([k \in 1..n |-> RatMul(history[k][i], history[k][i])])),
                          RatInt(n)),
                   RatMul(RatDiv(RatSum(List([k \in 1..n |-> history[k][i]])), RatInt(n)),
                          RatDiv(RatSum(List([k \in 1..n |-> history[k][i]])), RatInt(n))))
    IN  RatDiv(RatSum(List([i \in 1..EmotionDim |-> perDim(i)])), RatInt(EmotionDim))

\* The trajectory the specification gives the history; <<>> where the slope or the
\* variance sits exactly on a threshold.
StatedTrajectory ==
    IF Len(history) < 3 THEN Some("stable")
    ELSE IF RatLess(Ratio(1, 10), CentredSlope(Valences)) THEN Some("ascending")
    ELSE IF RatLess(CentredSlope(Valences), Ratio(-1, 10)) THEN Some("descending")
    ELSE IF CentredSlope(Valences) \in {Ratio(1, 10), Ratio(-1, 10)} THEN Nothing
    ELSE IF RatLess(Ratio(3, 10), MeanSquareVariance) THEN Some("volatile")
    ELSE IF MeanSquareVariance = Ratio(3, 10) THEN Nothing
    ELSE Some("stable")

\* The trajectory of the three valence sequences the specification names.
NamedTrajectory ==
    IF Valences = <<Ratio(1, 10), Ratio(1, 2), Ratio(9, 10)>> THEN Some("ascending")
    ELSE IF Valences = <<Ratio(9, 10), Ratio(1, 2), Ratio(1, 10)>> THEN Some("descending")
    ELSE IF Valences = <<Ratio(1, 2), Ratio(1, 2), Ratio(1, 2)>> THEN Some("stable")
    ELSE Nothing

Agrees(a, stated) == stated # Nothing => a.trajectory = stated[1]

\* C14 - Trajectory classification: 'stable' under 3 observations; from 3
\* on 'ascending' for a least-squares slope of the valences above 0.1,
\* 'descending' below -0.1, else 'volatile' for a mean per-dimension
\* variance above 0.3 and 'stable' otherwise; the valence sequences
\* [0.1,0.5,0.9], [0.9,0.5,0.1], [0.5,0.5,0.5] give ascending, descending,
\* stable.  Both analyzers.
C14_TrajectoryClassification ==
    /\ analysis # Nothing =>
           Agrees(analysis[1], StatedTrajectory) /\ Agrees(analysis[1], NamedTrajectory)
    /\ service_analysis # Nothing =>
           /\ Agrees(service_analysis[1], StatedTrajectory)
           /\ Agrees(service_analysis[1], NamedTrajectory)

\* Both analyzers classified the valence sequence [0.1, 0.5, 0.9].
C14_Witness ==
    /\ Valences = <<Ratio(1, 10), Ratio(1, 2), Ratio(9, 10)>>
    /\ analysis # Nothing /\ analysis[1].trajectory = "ascending"
    /\ service_analysis # Nothing /\ service_analysis[1].trajectory = "ascending"

(***************************************************************************)
(* compute_valence applied to a vector (SpecValence).                      *)
(***************************************************************************)
\* The components of the vectors are k / ValenceSteps, k in 0..ValenceSteps.
ValenceSteps == 2

Levels == {Ratio(k, ValenceSteps) : k \in 0..ValenceSteps}

\* The lengths of the vectors: empty, shorter than the index lists, full.
VectorLengths == {0, 3, EmotionDim}

\* The indices, from 0, whose value varies: two positive ones, two negative
\* ones and one in neither list, as far as the vector reaches.
VariedIndices(n) == {i \in {0, 1, 2, 3, 13} : i < n}

InitValence ==
    /\ ExtractorIdle
    /\ AnalyzerIdle
    /\ \E n \in VectorLengths :
           \E values \in [VariedIndices(n) -> Levels] :
               vector = [i \in 1..n |->
                            IF i - 1 \in VariedIndices(n) THEN values[i - 1] ELSE RatZero]
    /\ valence = Nothing
    /\ WritersIdle
    /\ ServiceIdle
    /\ MergeIdle
    /\ PairIdle

\* A call of EmotionalAnalyzer.compute_valence on the vector
ComputeValenceCall ==
    /\ valence = Nothing
    /\ valence' = Some(ComputeValence(vector))
    /\ UNCHANGED <<vector, relVars, storeVars, extracted, analyzerVars, writerVars, serviceVars, mergeVars, pairVars>>

NextValence == ComputeValenceCall

SpecValence == InitValence /\ [][NextValence]_vars

\* The sums over the positive and the negative indices the vector has.
PositiveSum == RatSum(ValuesAt(vector, positive_indices))
NegativeSum == RatSum(ValuesAt(vector, negative_indices))

\* C15 - Valence sign: for a vector with components in [0, 1] the valence
\* is above 0 when the positive sum exceeds the negative sum, below 0 when
\* it is smaller, 0 when the sums are equal, and within [-1, 1].
C15_ValenceSign ==
    valence # Nothing =>
        /\ RatLess(NegativeSum, PositiveSum) => RatLess(RatZero, valence[1])
        /\ RatLess(PositiveSum, NegativeSum) => RatLess(valence[1], RatZero)
        /\ PositiveSum = NegativeSum => valence[1] = RatZero
        /\ ~RatLess(valence[1], Ratio(-1, 1)) /\ ~RatLess(RatOne, valence[1])

\* The valence of a full vector whose positive sum exceeds a non-zero
\* negative sum.
C15_Witness ==
    /\ valence # Nothing
    /\ Len(vector) = EmotionDim
    /\ RatLess(RatZero, NegativeSum) /\ RatLess(NegativeSum, PositiveSum)
    /\ RatLess(RatZero, valence[1]) /\ RatLess(valence[1], RatOne)

\* ---------------------------------------------------------------------------
\* Writers interleaving the merge steps of extract_batch (lines 341-356) on
\* the same words_map / relations_map.  A writer merges one word dict or one
\* relation dict under one sentence id; its steps are the membership test
\* (343 / 350), the creation of the record (344 / 351-355) and add_state
\* (345 / 356).
\* ---------------------------------------------------------------------------

Writers == {"A", "B"}

WriterWords == {[word |-> "chat"], [word |-> "Noir"]}

WriterRelations ==
    {[source |-> "noir", relation |-> "EST", target |-> "chat"],
     [source |-> "Chat", relation |-> "UTILISE", target |-> "dort"]}

\* What a writer merges: a mot_dict or a rel_dict of extract's result.
Jobs ==
    [kind : {"word"}, dict : WriterWords, sentence_id : AddStateIds, emotions : Vectors]
    \cup [kind : {"relation"}, dict : WriterRelations, sentence_id : AddStateIds,
          emotions : Vectors]

\* The key of lines 342 / 349
KeyOf(job) ==
    IF job.kind = "word" THEN Lower(job.dict.word) ELSE RelationKey(job.dict)

\* Line 344 creating the record while dropping every other word of the map.
CreateWordAlone(words, mot_dict) ==
    DictSet(<<>>, Lower(mot_dict.word),
            [word |-> Lower(mot_dict.word), emotional_states |-> <<>>])

\* Line 344: words_map[word] = WordWithEmotions(word=word)
CreateWord(words, mot_dict) ==
    DictSet(words, Lower(mot_dict.word),
            [word |-> Lower(mot_dict.word), emotional_states |-> <<>>])

\* Lines 351-355: relations_map[key] = RelationWithEmotions(...)
CreateRelation(rels, rel_dict) ==
    DictSet(rels, RelationKey(rel_dict),
            [source |-> Lower(rel_dict.source), relation |-> rel_dict.relation,
             target |-> Lower(rel_dict.target), emotional_states |-> <<>>])

\* The maps the writers find: empty, or holding one record of an earlier
\* observation 1 with the zero vector.
StartingWords ==
    {<<>>, MergeWord(<<>>, [word |-> "chat"], 1, Nothing)}

StartingRelations ==
    {<<>>, MergeRelation(<<>>, [source |-> "noir", relation |-> "EST", target |-> "chat"],
                         1, Nothing)}

InitWriters ==
    /\ doc = <<>>
    /\ pc = "done"
    /\ significatifs = <<>>
    /\ triplets = <<>>
    /\ find = <<>>
    /\ all_relations = <<>>
    /\ unique = <<>>
    /\ relations = <<>>
    /\ extracted = <<>>
    /\ sentence_counter = 0
    /\ at = "in_batch"
    /\ words_map \in StartingWords
    /\ relations_map \in StartingRelations
    /\ extract_result = [mots |-> <<>>, relations |-> <<>>]
    /\ log = <<>>
    /\ last_write = NoWrite(<<>>, <<>>)
    /\ direct_calls = 0
    /\ counter_set = FALSE
    /\ escaped = 0
    /\ batch_start = Nothing
    /\ AnalyzerIdle
    /\ ValenceIdle
    /\ ServiceIdle
    /\ MergeIdle
    /\ PairIdle
    /\ writers \in [Writers -> [job : Jobs, line : {"test"}]]
    /\ maps0 = [words_map |-> words_map, relations_map |-> relations_map]
    /\ steps = <<>>

writerFrame ==
    <<relVars, extracted, analyzerVars, valenceVars, sentence_counter, at, extract_result,
      log, last_write, direct_calls, counter_set, escaped, batch_start, maps0,
      serviceVars, mergeVars, pairVars>>

\* Lines 343 / 350: "if word not in words_map" / "if key not in relations_map"
WriterTest(w) ==
    LET job == writers[w].job
        present == IF job.kind = "word" THEN KeyOf(job) \in DOMAIN words_map
                   ELSE KeyOf(job) \in DOMAIN relations_map
    IN  /\ writers[w].line = "test"
        /\ writers' = [writers EXCEPT ![w].line = IF present THEN "add_state" ELSE "create"]
        /\ steps' = Append(steps, w)
        /\ UNCHANGED <<words_map, relations_map, writerFrame>>

\* Lines 344 / 351-355: the record is created and stored under the key
WriterCreate(w) ==
    LET job == writers[w].job
    IN  /\ writers[w].line = "create"
        /\ IF job.kind = "word"
           THEN /\ words_map' = CreateWord(words_map, job.dict)
                /\ UNCHANGED relations_map
           ELSE /\ relations_map' = CreateRelation(relations_map, job.dict)
                /\ UNCHANGED words_map
        /\ writers' = [writers EXCEPT ![w].line = "add_state"]
        /\ steps' = Append(steps, w)
        /\ UNCHANGED writerFrame

\* Lines 345 / 356: add_state on the record now stored under the key
WriterAddState(w) ==
    LET job == writers[w].job
        key == KeyOf(job)
    IN  /\ writers[w].line = "add_state"
        /\ IF job.kind = "word"
           THEN /\ words_map' =
                       [words_map EXCEPT ![key].emotional_states =
                           WordAddState(@, job.sentence_id, Some(job.emotions))]
                /\ UNCHANGED relations_map
           ELSE /\ relations_map' =
                       [relations_map EXCEPT ![key].emotional_states =
                           RelationAddState(@, job.sentence_id, Some(job.emotions))]
                /\ UNCHANGED words_map
        /\ writers' = [writers EXCEPT ![w].line = "merged"]
        /\ steps' = Append(steps, w)
        /\ UNCHANGED writerFrame

NextWriters ==
    \/ \E w \in Writers : WriterTest(w)
    \/ \E w \in Writers : WriterCreate(w)
    \/ \E w \in Writers : WriterAddState(w)

SpecWriters == InitWriters /\ [][NextWriters]_vars

\* One writer run alone on the maps: lines 342-346 or 349-356 without interruption.
RunAlone(maps, job) ==
    IF job.kind = "word"
    THEN [maps EXCEPT !.words_map = MergeWord(@, job.dict, job.sentence_id, Some(job.emotions))]
    ELSE [maps EXCEPT !.relations_map =
             MergeRelation(@, job.dict, job.sentence_id, Some(job.emotions))]

\* The two writers one after the other, first then second.
OneAfterTheOther(first, second) ==
    RunAlone(RunAlone(maps0, writers[first].job), writers[second].job)

WritersMerged == writers # <<>> /\ \A w \in Writers : writers[w].line = "merged"

DistinctKeys ==
    \/ writers["A"].job.kind # writers["B"].job.kind
    \/ KeyOf(writers["A"].job) # KeyOf(writers["B"].job)

\* The steps of the two writers were interleaved: neither ran wholly before the other.
Interleaved ==
    \E i, j, k \in 1..Len(steps) :
        i < j /\ j < k /\ steps[i] = steps[k] /\ steps[i] # steps[j]

\* C16: when two writers on different keys have both finished, however their
\* membership tests, record creations and add_state calls were interleaved,
\* the two maps are the ones obtained by running A then B, and also the ones
\* obtained by running B then A.
C16_DistinctKeysCommute ==
    (WritersMerged /\ DistinctKeys) =>
        LET maps == [words_map |-> words_map, relations_map |-> relations_map]
        IN  /\ maps = OneAfterTheOther("A", "B")
            /\ maps = OneAfterTheOther("B", "A")

\* Two writers of different words of the same map, both creating their record,
\* finished after interleaved steps.
C16_Witness ==
    /\ WritersMerged
    /\ Interleaved
    /\ writers["A"].job.kind = "word"
    /\ writers["B"].job.kind = "word"
    /\ KeyOf(writers["A"].job) # KeyOf(writers["B"].job)
    /\ Len(steps) = 6

\* ---------------------------------------------------------------------------
\* neo4j_service.py: the request / response protocol of Neo4jService over the
\* message broker.  A client publishes a JSON request; the service's callback
\* decodes it, runs the handler registered for its type and publishes the
\* JSON of the Neo4jResponse; the client decodes what it receives.
\* ---------------------------------------------------------------------------

\* The number of requests the clients send.
MaxRequests == 2

\* dict.get(key, default)
DictGet(d, key, default) == IF key \in DOMAIN d THEN d[key] ELSE default

\* json.dumps of an object: its members, name and value, in the order given.
JsonDumps(obj, names) == [i \in 1..Len(names) |-> <<names[i], obj[names[i]]>>]

\* json.loads of an object: the dict of its members, a later member replacing
\* an earlier one of the same name.
JsonLoads(text) ==
    [name \in {text[i][1] : i \in 1..Len(text)} |->
        LET last == CHOOSE i \in 1..Len(text) :
                        /\ text[i][1] = name
                        /\ \A j \in 1..Len(text) : text[j][1] = name => j <= i
        IN  text[last][2]]

\* The fields of the Neo4jRequest dataclass: those without a default, and all.
RequestRequired == {"request_id", "request_type", "payload"}
RequestFields == RequestRequired \cup {"timestamp", "correlation_id"}

\* Neo4jRequest(**request_data) raises TypeError on a missing or unknown field.
RequestRaises(request_data) ==
    ~(RequestRequired \subseteq DOMAIN request_data /\ DOMAIN request_data \subseteq RequestFields)

\* The fields of the Neo4jResponse dataclass, in declaration order (asdict).
ResponseFields ==
    <<"request_id", "success", "data", "error", "execution_time_ms", "timestamp">>

\* Neo4jResponse(request_id=..., success=..., data=..., error=...), with the
\* execution time the callback sets and the timestamp of __post_init__.
Neo4jResponse(request_id, success, data, error) ==
    [request_id |-> request_id, success |-> success, data |-> data, error |-> error,
     execution_time_ms |-> "<elapsed>", timestamp |-> "<now>"]

\* Request types with an entry in self.handlers (two of the table's entries).
Handlers == {"create_memory", "get_memory"}

\* What a handler does with a payload depends on the graph database: it
\* returns a result dict or raises.
HandlerOutcomes ==
    {[kind |-> "returns", value |-> [id |-> "TEST_MEM_1"]],
     [kind |-> "raises", value |-> "ServiceUnavailable"]}

NotCalled == [kind |-> "not_called", value |-> None]

\* _process_request losing the exception text of a failing handler.
ProcessRequestErrorLost(request, outcome) ==
    IF request.request_type \notin Handlers
    THEN Neo4jResponse(request.request_id, FALSE, None,
                       "Type de requête inconnu: " \o request.request_type)
    ELSE IF outcome.kind = "returns"
    THEN Neo4jResponse(request.request_id, TRUE, outcome.value, None)
    ELSE Neo4jResponse(request.request_id, FALSE, None, None)

\* Neo4jService._process_request, the handler doing "outcome"
ProcessRequest(request, outcome) ==
    IF request.request_type \notin Handlers
    THEN Neo4jResponse(request.request_id, FALSE, None,
                       "Type de requête inconnu: " \o request.request_type)
    ELSE IF outcome.kind = "returns"
    THEN Neo4jResponse(request.request_id, TRUE, outcome.value, None)
    ELSE Neo4jResponse(request.request_id, FALSE, None, outcome.value)

\* The bodies clients publish: send_request's JSON for a known or an unknown
\* type, and a body without payload.
RequestTypes == Handlers \cup {"no_such_type"}

RequestIds == {"r1", "r2"}

RequestBodies ==
    {JsonDumps([request_id |-> r, request_type |-> t, payload |-> [id |-> "TEST_MEM_1"]],
               <<"request_id", "request_type", "payload">>) :
        r \in RequestIds, t \in RequestTypes}
    \cup {JsonDumps([request_id |-> "r1", request_type |-> "create_memory"],
                    <<"request_id", "request_type">>)}

\* properties.reply_to: the client's callback queue, or none.
ReplyTos == {None, "amq.gen-client"}

InitService ==
    /\ ExtractorIdle
    /\ AnalyzerIdle
    /\ ValenceIdle
    /\ WritersIdle
    /\ MergeIdle
    /\ PairIdle
    /\ ServiceIdle

serviceFrame ==
    <<relVars, storeVars, extracted, analyzerVars, valenceVars, writerVars, mergeVars, pairVars>>

\* A client's basic_publish on the request queue, delivered to the callback.
Deliver(body, reply_to) ==
    /\ delivery = Nothing
    /\ Len(handled) < MaxRequests
    /\ delivery' = Some([body |-> body, reply_to |-> reply_to,
                         correlation_id |-> DictGet(JsonLoads(body), "request_id", None),
                         delivery_tag |-> Len(handled) + 1])
    /\ UNCHANGED <<outbox, settled, handled, serviceFrame>>

\* properties.reply_to or f"response.{request.request_id}"
RoutingKeyById(reply_to, request_id) == "response." \o request_id

RoutingKey(reply_to, request_id) == OrElse(reply_to, "response." \o request_id)

\* Acknowledges whatever happened, and rejects as well after an exception.
ChannelCallsAckAlways(raised) ==
    IF raised THEN <<"basic_ack", "basic_nack">> ELSE <<"basic_publish", "basic_ack">>

\* The calls of the callback on the channel that took effect, in order: the
\* try block's when nothing raised, the except block's otherwise.
ChannelCalls(raised) ==
    IF raised THEN <<"basic_nack">> ELSE <<"basic_publish", "basic_ack">>

\* What the broker records of the calls for the delivery: basic_ack, or
\* basic_nack with requeue=False.
Settlements(delivery_tag, calls) ==
    LET settling == SelectSeq(calls, LAMBDA c : c \in {"basic_ack", "basic_nack"})
    IN  [k \in 1..Len(settling) |->
            [delivery_tag |-> delivery_tag,
             how |-> IF settling[k] = "basic_ack" THEN "ack" ELSE "nack",
             requeue |-> FALSE]]

\* _consume_loop's callback on the delivery; "outcome" is what the handler does
\* if it is called, "publish_raises" whether building or sending the response
\* message raises.
Callback(outcome, publish_raises) ==
    /\ delivery # Nothing
    /\ LET d == delivery[1]
           request_data == JsonLoads(d.body)
       IN  IF RequestRaises(request_data)
           THEN /\ outcome = NotCalled
                /\ ~publish_raises
                /\ settled' = settled \o Settlements(d.delivery_tag, ChannelCalls(TRUE))
                /\ handled' = Append(handled,
                                     [delivery |-> d, request |-> Nothing,
                                      registered |-> FALSE, outcome |-> outcome,
                                      response |-> Nothing, published |-> Nothing,
                                      calls |-> ChannelCalls(TRUE), read |-> Nothing])
                /\ UNCHANGED outbox
           ELSE LET registered == request_data.request_type \in Handlers
                    response == ProcessRequest(request_data, outcome)
                    message ==
                        [exchange |-> "neo4j.responses",
                         routing_key |-> RoutingKey(d.reply_to, request_data.request_id),
                         body |-> JsonDumps(response, ResponseFields),
                         correlation_id |-> d.correlation_id]
                    calls == ChannelCalls(publish_raises)
                IN  /\ IF registered THEN outcome \in HandlerOutcomes ELSE outcome = NotCalled
                    /\ outbox' = IF publish_raises THEN outbox ELSE Append(outbox, message)
                    /\ settled' = settled \o Settlements(d.delivery_tag, calls)
                    /\ handled' = Append(handled,
                                         [delivery |-> d, request |-> Some(request_data),
                                          registered |-> registered, outcome |-> outcome,
                                          response |-> Some(response),
                                          published |-> IF publish_raises THEN Nothing
                                                        ELSE Some(message),
                                          calls |-> calls,
                                          read |-> IF publish_raises THEN Nothing
                                                   ELSE Some(JsonLoads(message.body))])
    /\ delivery' = Nothing
    /\ UNCHANGED serviceFrame

NextService ==
    \/ \E body \in RequestBodies, reply_to \in ReplyTos : Deliver(body, reply_to)
    \/ \E outcome \in HandlerOutcomes \cup {NotCalled}, publish_raises \in BOOLEAN :
           Callback(outcome, publish_raises)

SpecService == InitService /\ [][NextService]_vars

\* C17: whenever the type of a request has a registered handler and the handler
\* returned, the response the client decodes has a field status equal to
\* 'success' and carries the handler's result in data.
C17_StatusSuccess ==
    \A i \in 1..Len(handled) :
        (handled[i].registered /\ handled[i].outcome.kind = "returns"
            /\ handled[i].published # Nothing) =>
            /\ handled[i].read # Nothing
            /\ DictGet(handled[i].read[1], "status", None) = "success"
            /\ DictGet(handled[i].read[1], "data", None) = handled[i].outcome.value

\* ---------------------------------------------------------------------------
\* hybrid_search.py: HybridSearchEngine.merge_results.  Scores and weights are
\* counted in tenths, final scores in hundredths.
\* ---------------------------------------------------------------------------

\* The longest list of results given to merge_results.
MaxResults == 2

\* SearchResult(...): the fields merge_results reads or writes.  The other
\* fields (lemma, emotional data, sentence_ids) are copied with concept_name.
SearchResult(concept_name, lexical_score, semantic_score, source, memory_ids) ==
    [concept_name |-> concept_name, lexical_score |-> lexical_score,
     semantic_score |-> semantic_score, final_score |-> 0, source |-> source,
     memory_ids |-> memory_ids]

\* A dict in insertion order: its keys as first inserted, and its values.
EmptyDict == [keys |-> <<>>, at |-> <<>>]

OrderedSet(d, key, value) ==
    [keys |-> IF key \in DOMAIN d.at THEN d.keys ELSE Append(d.keys, key),
     at   |-> DictSet(d.at, key, value)]

\* "for r in lexical_results": lines 702-714
RECURSIVE AddLexical(_, _)
AddLexical(dict, results) ==
    IF results = <<>> THEN dict
    ELSE LET r == Head(results)
         IN  AddLexical(OrderedSet(dict, Lower(r.concept_name),
                                   SearchResult(r.concept_name, r.lexical_score, 0, "lexical",
                                                r.memory_ids)),
                        Tail(results))

\* "for r in semantic_results": lines 717-741
RECURSIVE AddSemantic(_, _)
AddSemantic(dict, results) ==
    IF results = <<>> THEN dict
    ELSE LET r == Head(results)
             key == Lower(r.concept_name)
             new == IF key \in DOMAIN dict.at
                    THEN [dict.at[key] EXCEPT
                             !.semantic_score = r.semantic_score,
                             !.source = "both",
                             !.memory_ids = @ \cup r.memory_ids]
                    ELSE SearchResult(r.concept_name, 0, r.semantic_score, "semantic",
                                      r.memory_ids)
         IN  AddSemantic(OrderedSet(dict, key, new), Tail(results))

\* Lines 744-748
WithFinalScore(r, weight_lexical, weight_semantic) ==
    [r EXCEPT !.final_score =
         weight_lexical * r.lexical_score + weight_semantic * r.semantic_score]

\* list.sort(key=final_score, reverse=True): stable, equal scores keep their order.
RECURSIVE InsertByScore(_, _)
InsertByScore(sorted, r) ==
    IF sorted = <<>> THEN <<r>>
    ELSE IF Head(sorted).final_score >= r.final_score
         THEN <<Head(sorted)>> \o InsertByScore(Tail(sorted), r)
         ELSE <<r>> \o sorted

RECURSIVE SortByFinalScore(_)
SortByFinalScore(results) ==
    IF results = <<>> THEN <<>>
    ELSE InsertByScore(SortByFinalScore(SubSeq(results, 1, Len(results) - 1)),
                       results[Len(results)])

\* HybridSearchEngine.merge_results
MergeResults(lexical, semantic, weight_lexical, weight_semantic) ==
    LET dict == AddSemantic(AddLexical(EmptyDict, lexical), semantic)
        results == [i \in 1..Len(dict.keys) |->
                       WithFinalScore(dict.at[dict.keys[i]], weight_lexical, weight_semantic)]
    IN  SortByFinalScore(results)

\* Concept names of the graph; two of them differ only in case.
ConceptNames == {"chat", "Chat", "noir"}

ScoreValues == {5, 10}

MemoryIdsOf(name) == IF name = "noir" THEN {} ELSE {"mem_" \o name}

LexicalEntries ==
    {SearchResult(n, s, 0, "lexical", MemoryIdsOf(n)) : n \in ConceptNames, s \in ScoreValues}

SemanticEntries ==
    {SearchResult(n, 0, s, "semantic", MemoryIdsOf(n)) : n \in ConceptNames, s \in ScoreValues}

ListsOf(entries) ==
    UNION {[1..n -> entries] : n \in 0..MaxResults}

\* weight_lexical, weight_semantic
WeightPairs == {<<5, 5>>, <<10, 0>>, <<3, 7>>}

InitMerge ==
    /\ ExtractorIdle
    /\ AnalyzerIdle
    /\ ValenceIdle
    /\ WritersIdle
    /\ ServiceIdle
    /\ PairIdle
    /\ lexical_results \in ListsOf(LexicalEntries)
    /\ semantic_results \in ListsOf(SemanticEntries)
    /\ weights \in WeightPairs
    /\ merged = Nothing

\* A call of merge_results on the two lists
MergeResultsCall ==
    /\ merged = Nothing
    /\ merged' = Some(MergeResults(lexical_results, semantic_results, weights[1], weights[2]))
    /\ UNCHANGED <<lexical_results, semantic_results, weights, relVars, storeVars, extracted,
                   analyzerVars, valenceVars, writerVars, serviceVars, pairVars>>

NextMerge == MergeResultsCall

SpecMerge == InitMerge /\ [][NextMerge]_vars

\* The lower-cased names of a list of results.
NamesOf(results) == {Lower(results[i].concept_name) : i \in 1..Len(results)}

\* The scores a list gives for a name.
ScoresOf(results, name, field) ==
    {results[i][field] : i \in {j \in 1..Len(results) : Lower(results[j].concept_name) = name}}

OnePerName(results) ==
    /\ NamesOf(results) = NamesOf(lexical_results) \cup NamesOf(semantic_results)
    /\ \A i, j \in 1..Len(results) :
           Lower(results[i].concept_name) = Lower(results[j].concept_name) => i = j

SourceAsStated(r) ==
    LET name == Lower(r.concept_name)
        in_lexical == name \in NamesOf(lexical_results)
        in_semantic == name \in NamesOf(semantic_results)
    IN  /\ r.source = "both" <=> (in_lexical /\ in_semantic)
        /\ (in_lexical /\ ~in_semantic) => r.source = "lexical"
        /\ (in_semantic /\ ~in_lexical) => r.source = "semantic"
        /\ (in_lexical /\ in_semantic) =>
               /\ r.lexical_score \in ScoresOf(lexical_results, name, "lexical_score")
               /\ r.semantic_score \in ScoresOf(semantic_results, name, "semantic_score")

FinalScoreAsStated(r) ==
    r.final_score = weights[1] * r.lexical_score + weights[2] * r.semantic_score

NonIncreasing(results) ==
    \A i \in 1..(Len(results) - 1) : results[i].final_score >= results[i + 1].final_score

\* C18: merge_results returns one result per case-insensitive concept name of
\* the two lists; a result's source is 'both' exactly when its name occurs in
\* both lists, with the lexical score of a lexical entry and the semantic
\* score of a semantic entry, and 'lexical' or 'semantic' otherwise; its
\* final_score is weight_lexical * lexical_score + weight_semantic *
\* semantic_score; the list is ordered by non-increasing final_score.
C18_MergeResults ==
    merged # Nothing =>
        LET results == merged[1]
        IN  /\ OnePerName(results)
            /\ \A i \in 1..Len(results) : SourceAsStated(results[i])
            /\ \A i \in 1..Len(results) : FinalScoreAsStated(results[i])
            /\ NonIncreasing(results)

\* ---------------------------------------------------------------------------
\* The coverage step of _extract_all_relations (lines 506-509, 694-710).
\* ---------------------------------------------------------------------------

\* The vocabulary words absent from every returned relation.
Isolated == {w \in Range(significatifs) : w \notin UsedWords(relations)}

\* A raw triplet links the word to a word of some returned relation.
LinkedToCovered(word) ==
    \E k \in 1..Len(triplets) :
        \/ (find[triplets[k][1]] = word /\ find[triplets[k][3]] \in UsedWords(relations))
        \/ (find[triplets[k][3]] = word /\ find[triplets[k][1]] \in UsedWords(relations))

\* C19: after the coverage step, no vocabulary word that is absent from every
\* returned relation has a raw triplet whose other end resolves to a word of
\* some returned relation, the relations the coverage step added included.
C19_MaximalCoverage ==
    pc = "done" => \A word \in Isolated : ~LinkedToCovered(word)

\* The observations of the current extract_batch call whose entry carried no
\* sentence_id, in the order of the entries.
AutoNumbered == SelectSeq(CurrentLog, LAMBDA o : o.auto)

\* C20: in extract_batch called with start_sentence_id = s, the k-th entry
\* without a sentence_id is recorded under the id s + k - 1, however many
\* entries with a caller-supplied sentence_id precede it.
C20_BatchNumbering ==
    (batch_start # Nothing /\ at \in {"in_batch", "extract_batch"}) =>
        \A k \in 1..Len(AutoNumbered) :
            AutoNumbered[k].sentence_id = batch_start[1] + k - 1

\* ---------------------------------------------------------------------------
\* The fuzzy resolver, stage by stage.
\* ---------------------------------------------------------------------------

\* The word matches the vocabulary element at the stage: 1 exact normalized
\* form, 2 lemma, 3 suffix "s" / "x", 4 common prefix of 4 characters.
MatchesAt(stage, word, sig) ==
    LET word_norm == Normalize(word)
        sig_norm == Normalize(sig)
    IN  CASE stage = 1 -> sig_norm = word_norm
          [] stage = 2 -> LemmaMatch(word_norm, GetLemma(word_norm), sig_norm,
                                     GetLemma(sig_norm))
          [] stage = 3 -> SuffixMatch(word_norm, sig_norm)
          [] stage = 4 -> PrefixMatch(word_norm, sig_norm)

\* result is the first element, in list order, matching at the earliest stage
\* at which some element matches; None when no element matches at any stage.
ResolvedAsStated(word, result) ==
    LET n == Len(significatifs)
    IN  IF \A stage \in 1..4, i \in 1..n : ~MatchesAt(stage, word, significatifs[i])
        THEN result = None
        ELSE \E stage \in 1..4, i \in 1..n :
                 /\ result = significatifs[i]
                 /\ MatchesAt(stage, word, significatifs[i])
                 /\ \A j \in 1..(i - 1) : ~MatchesAt(stage, word, significatifs[j])
                 /\ \A earlier \in 1..(stage - 1), j \in 1..n :
                        ~MatchesAt(earlier, word, significatifs[j])

\* C21: _find_in_significatifs returns the first vocabulary element, in list
\* order, that matches at the earliest stage with a match (exact, lemma,
\* suffix, prefix, in that order), None when no stage matches, and never a
\* word outside the vocabulary.
C21_ResolverOrder ==
    pc = "done" =>
        \A word \in DOMAIN find :
            /\ ResolvedAsStated(word, find[word])
            /\ find[word] # None => find[word] \in Range(significatifs)

\* A word resolved at the suffix stage to an element that comes after an
\* element matching it only at the prefix stage.
C21_Witness ==
    /\ pc = "done"
    /\ \E word \in DOMAIN find, i, j \in 1..Len(significatifs) :
           /\ i < j
           /\ find[word] = significatifs[j]
           /\ MatchesAt(3, word, significatifs[j])
           /\ \A stage \in 1..3 : ~MatchesAt(stage, word, significatifs[i])
           /\ MatchesAt(4, word, significatifs[i])

\* ---------------------------------------------------------------------------
\* The direct strategy.
\* ---------------------------------------------------------------------------

\* a is b with some elements left out.
RECURSIVE IsSubsequence(_, _)
IsSubsequence(a, b) ==
    IF a = <<>> THEN TRUE
    ELSE IF b = <<>> THEN FALSE
    ELSE IF Head(a) = Head(b) THEN IsSubsequence(Tail(a), Tail(b))
    ELSE IsSubsequence(a, Tail(b))

\* The triplet has a named kind and both its ends resolve.
NamedAndResolved(k) ==
    /\ triplets[k][2] # NoRelation
    /\ Truthy(find[triplets[k][1]])
    /\ Truthy(find[triplets[k][3]])

\* One candidate per named triplet with resolved ends, in the order of the
\* triplets: head first for IMPLIQUE, child first otherwise.
StatedDirect ==
    LET expected(k) ==
            IF ~NamedAndResolved(k) THEN <<>>
            ELSE IF triplets[k][2] = "IMPLIQUE"
                 THEN << <<find[triplets[k][3]], "IMPLIQUE", find[triplets[k][1]]>> >>
                 ELSE << <<find[triplets[k][1]], triplets[k][2], find[triplets[k][3]]>> >>
    IN  Concat([k \in 1..Len(triplets) |-> expected(k)])

\* Some IMPLIQUE triplet has an unresolved child and a resolved head: the
\* strategy then looks for an object of the child (lines 526-534).
ObjectFallback ==
    \E k \in 1..Len(triplets) :
        /\ triplets[k][2] = "IMPLIQUE"
        /\ ~Truthy(find[triplets[k][1]])
        /\ Truthy(find[triplets[k][3]])

\* C22: _extract_direct_relations emits, for each named-kind triplet whose two
\* ends resolve, exactly one candidate: (head, IMPLIQUE, child) for IMPLIQUE,
\* (child, kind, head) for every other kind; sentinel triplets emit nothing.
\* The only other candidates are those of the object fallback.
C22_DirectOrientation ==
    pc = "done" =>
        LET direct == ExtractDirectRelations(find, triplets, doc)
        IN  /\ IsSubsequence(StatedDirect, direct)
            /\ ~ObjectFallback => direct = StatedDirect

\* A sentence with an IMPLIQUE triplet between two different resolved words
\* and a sentinel triplet whose ends resolve.
C22_Witness ==
    /\ pc = "done"
    /\ \E k \in 1..Len(triplets) :
           /\ NamedAndResolved(k)
           /\ triplets[k][2] = "IMPLIQUE"
           /\ find[triplets[k][1]] # find[triplets[k][3]]
    /\ \E k \in 1..Len(triplets) :
           /\ triplets[k][2] = NoRelation
           /\ Truthy(find[triplets[k][1]])
           /\ Truthy(find[triplets[k][3]])

\* The named-kind triplets of the sentence.
NamedTriplets == SelectSeq(triplets, LAMBDA t : t[2] # NoRelation)

\* No strategy besides the POS-pair fallback draws a candidate from a sentinel
\* triplet: the coordinated-attributes strategy, the other strategy reading the
\* triplets, gives what it gives without the sentinels.  (The coverage step
\* reads them too, and takes its kind from the POS-pair classification.)
SentinelsOnlyInFallback ==
    ExtractCoordinatedAttributes(find, triplets)
        = ExtractCoordinatedAttributes(find, NamedTriplets)

\* C22 as stated: the orientation of the direct strategy, and sentinel
\* triplets handled by the POS-pair fallback only.
C22_SentinelsOnlyInFallback ==
    pc = "done" =>
        /\ LET direct == ExtractDirectRelations(find, triplets, doc)
           IN  /\ IsSubsequence(StatedDirect, direct)
               /\ ~ObjectFallback => direct = StatedDirect
        /\ SentinelsOnlyInFallback

\* ---------------------------------------------------------------------------
\* _analyze_semantic_relation called on two words.
\* ---------------------------------------------------------------------------

\* The words it is called on: the empty string (no token, no POS), a word
\* outside the lexicon, and words of every POS of the lexicon.
PairWords ==
    {"", "xyz", "chat", "pomme", "noir", "grand", "dort", "mange", "Marie", "marie",
     "vite", "deux", "le", "dans", "il", "et", ".", "  "}

InitPair ==
    /\ ExtractorIdle
    /\ AnalyzerIdle
    /\ ValenceIdle
    /\ WritersIdle
    /\ ServiceIdle
    /\ MergeIdle
    /\ \E word1 \in PairWords : \E word2 \in PairWords :
           pos_pair = [word1 |-> word1, word2 |-> word2, kind |-> None]

\* RelationExtractor._analyze_semantic_relation(word1, word2)
AnalyzeSemanticRelationCall ==
    /\ pos_pair # <<>>
    /\ pos_pair.kind = None
    /\ pos_pair' = [pos_pair EXCEPT !.kind = AnalyzeSemanticRelation(pos_pair.word1,
                                                                     pos_pair.word2)]
    /\ UNCHANGED <<relVars, storeVars, extracted, analyzerVars, valenceVars, writerVars,
                   serviceVars, mergeVars>>

NextPair == AnalyzeSemanticRelationCall

SpecPair == InitPair /\ [][NextPair]_vars

\* The kind stated for an unordered pair of POS tags.
StatedKind(pos1, pos2) ==
    LET pair == {pos1, pos2}
    IN  IF pair = {"PROPN", "VERB"} THEN "FAIT"
        ELSE IF pair = {"ADJ", "NOUN"} THEN "EST"
        ELSE IF pair = {"ADV", "VERB"} THEN "MODIFIE"
        ELSE IF pair = {"NOUN", "VERB"} THEN "UTILISE"
        ELSE IF pair = {"PROPN", "NOUN"} THEN "POSSEDE"
        ELSE IF pair = {"NOUN"} THEN "RELIE"
        ELSE "ASSOCIE"

\* C23: _analyze_semantic_relation returns the kind of the table for the
\* unordered pair of the POS tags of its two words, the same for (word1, word2)
\* and (word2, word1), and ASSOCIE for every other pair or an unknown POS.
C23_PosPairTable ==
    (pos_pair # <<>> /\ pos_pair.kind # None) =>
        /\ pos_pair.kind = StatedKind(GetPos(pos_pair.word1), GetPos(pos_pair.word2))
        /\ pos_pair.kind = AnalyzeSemanticRelation(pos_pair.word2, pos_pair.word1)

\* The call on a noun and an adjective, in the order of the table's second
\* line for the pair.
C23_Witness ==
    /\ pos_pair # <<>>
    /\ GetPos(pos_pair.word1) = "NOUN"
    /\ GetPos(pos_pair.word2) = "ADJ"
    /\ pos_pair.kind = "EST"

\* ---------------------------------------------------------------------------
\* The trauma score and the negative emotions.
\* ---------------------------------------------------------------------------

\* The only non-zero components of the vector are negative-valence ones, and
\* there is one.
OnlyNegative(emotions) ==
    /\ \E k \in 1..Len(negative_indices) : emotions[negative_indices[k] + 1] # RatZero
    /\ \A i \in 1..Len(emotions) :
           emotions[i] # RatZero => \E k \in 1..Len(negative_indices) :
                                        negative_indices[k] + 1 = i

\* The peak of the observation among the indices of the trauma score.
TraumaPeak(emotions) ==
    IF ValuesAt(emotions, trauma_indices) = <<>> THEN RatZero
    ELSE MaxOf(ValuesAt(emotions, trauma_indices))

\* C24: for a non-empty history the trauma score is the mean of the
\* observations' maxima over the indices compute_valence counts as negative,
\* and an observation whose only non-zero components are negative-valence
\* components contributes a positive peak.
C24_TraumaScore ==
    (analysis # Nothing /\ history # <<>>) =>
        /\ analysis[1].trauma_score = TraumaScore(history, negative_indices)
        /\ \A k \in 1..Len(history) :
               OnlyNegative(history[k]) => RatLess(RatZero, TraumaPeak(history[k]))

\* The trauma score is the mean of the maxima over the indices of lines
\* 169-171, whatever they are.
C24_MeanOfPeaks ==
    (analysis # Nothing /\ history # <<>>) =>
        analysis[1].trauma_score
            = MeanOf(List([k \in 1..Len(history) |-> TraumaPeak(history[k])]))

\* ---------------------------------------------------------------------------
\* _process_request and the consumer protocol.
\* ---------------------------------------------------------------------------

SettledFor(delivery_tag) ==
    SelectSeq(settled, LAMBDA s : s.delivery_tag = delivery_tag)

\* The messages published by the deliveries handled so far, in order.
RECURSIVE PublishedUpTo(_)
PublishedUpTo(n) ==
    IF n = 0 THEN <<>> ELSE PublishedUpTo(n - 1) \o handled[n].published

MaxRecorded == 3

\* The observations recorded: valences 0.1, 0.5 and 0.9.
RecordedVectors ==
    { Emotions(Ratio(11, 20), Ratio(9, 20)),
      Emotions(Ratio(15, 20), Ratio(5, 20)),
      Emotions(Ratio(19, 20), Ratio(1, 20)) }

\* The orders in which add_state can have been called with the ids 1..n: a
\* dict keeps its keys in the order of their first assignment.
RecordingOrders(n) ==
    {ids \in [1..n -> 1..n] : \A i, j \in 1..n : i # j => ids[i] # ids[j]}

InitRecorded ==
    /\ ExtractorIdle
    /\ \E n \in 0..MaxRecorded :
           /\ history \in [1..n -> RecordedVectors]
           /\ history_ids \in RecordingOrders(n)
    /\ analysis = Nothing
    /\ service_analysis = Nothing
    /\ ValenceIdle
    /\ WritersIdle
    /\ ServiceIdle
    /\ MergeIdle
    /\ PairIdle

SpecRecorded == InitRecorded /\ [][NextAnalyzer]_vars

\* The observations in ascending order of their ids.
InIdOrder(values, ids) ==
    [k \in 1..Len(values) |-> values[CHOOSE j \in 1..Len(ids) : ids[j] = k]]

\* C27: the trajectory analyze_history returns is the one computed with the
\* observations taken in ascending order of observation id, whatever the order
\* in which they were recorded.
C27_TrajectoryByIdOrder ==
    analysis # Nothing =>
        \E ties \in Ties :
            analysis[1].trajectory
                = AnalyzeHistory(InIdOrder(history, history_ids), ties).trajectory

\* ---------------------------------------------------------------------------
\* The two history analysers side by side.
\* ---------------------------------------------------------------------------

\* Every component of every observation lies in [0, 1].
InUnitRange(emotions_array) ==
    \A k \in 1..Len(emotions_array) : \A i \in 1..Len(emotions_array[k]) :
        /\ ~RatLess(emotions_array[k][i], RatZero)
        /\ ~RatLess(RatOne, emotions_array[k][i])

\* The fields both analysers return, the trauma score apart.
SameButTrauma(a, s) ==
    /\ a.dominant_emotion = s.dominant_emotion
    /\ a.avg_valence = s.avg_valence
    /\ a.stability = s.stability
    /\ a.trajectory = s.trajectory
    /\ a.emotion_count = s.emotion_count

\* Both analysers have run on the history, a non-empty one within [0, 1], and
\* their float comparisons came out as "ties" says.
BothAnalysed(ties) ==
    /\ history # <<>>
    /\ InUnitRange(history)
    /\ analysis # Nothing
    /\ service_analysis # Nothing
    /\ analysis[1] = AnalyzeHistory(history, ties)
    /\ service_analysis[1] = AnalyzeEmotionalHistory(history, ties)

\* C28: on a non-empty history with components in [0, 1], analyze_history and
\* _analyze_emotional_history return the same dominant_emotion, avg_valence,
\* stability, trajectory, trauma_score and emotion_count.
C28_AnalysersAgree ==
    \A ties \in Ties :
        BothAnalysed(ties) =>
            /\ SameButTrauma(analysis[1], service_analysis[1])
            /\ analysis[1].trauma_score = service_analysis[1].trauma_score

\* ---------------------------------------------------------------------------
\* Histories at the ends of the range [0, 1].
\* ---------------------------------------------------------------------------

\* The observations: all components 0.0, all components 1.0, joie alone at 1.0.
UnitVectors ==
    { Emotions(RatZero, RatZero),
      [i \in 1..EmotionDim |-> RatOne],
      Emotions(RatOne, RatZero) }

InitUnit ==
    /\ ExtractorIdle
    /\ \E n \in 0..MaxHistory :
           /\ history \in [1..n -> UnitVectors]
           /\ history_ids = [k \in 1..n |-> k]
    /\ analysis = Nothing
    /\ service_analysis = Nothing
    /\ ValenceIdle
    /\ WritersIdle
    /\ ServiceIdle
    /\ MergeIdle
    /\ PairIdle

SpecUnit == InitUnit /\ [][NextAnalyzer]_vars

\* C29: for a history with all components in [0, 1], the mean per-dimension
\* variance of analyze_history is at most 0.25, the trajectory is never
\* 'volatile' and the stability is never below 0.5.
C29_VarianceBound ==
    (analysis # Nothing /\ InUnitRange(history)) =>
        /\ ~RatLess(Ratio(1, 4), analysis[1].variance)
        /\ analysis[1].trajectory # "volatile"
        /\ ~RatLess(analysis[1].stability, Ratio(1, 2))

\* A history of three observations alternating between all 0.0 and all 1.0:
\* the trend is flat, the variance test decides, and the variance is 2/9.
C29_Witness ==
    /\ analysis # Nothing
    /\ Len(history) >= 3
    /\ InUnitRange(history)
    /\ ~RatLess(analysis[1].variance, Ratio(2, 9))
    /\ analysis[1].trajectory = "stable"

\* ---------------------------------------------------------------------------
\* The relations returned by _extract_all_relations.
\* ---------------------------------------------------------------------------

\* The relations the coverage step appended to those of the merge pass.
AddedByCoverage == SubSeq(relations, Len(unique) + 1, Len(relations))

\* The distinct vocabulary words in no relation of the merge pass.
Uncovered == Range(significatifs) \ UsedWords(unique)

\* No relation is in the list twice.
NoDuplicate(rels) == \A i, j \in 1..Len(rels) : i # j => rels[i] # rels[j]

\* The merge-pass relations are the head of the returned list.
MergeKept == SubSeq(relations, 1, Len(unique)) = unique

\* Each appended relation links an uncovered word to a word of the merge pass.
LinksToMerge ==
    \A k \in 1..Len(AddedByCoverage) :
        LET r == AddedByCoverage[k]
        IN  \/ (r[1] \in Uncovered /\ r[3] \in UsedWords(unique))
            \/ (r[3] \in Uncovered /\ r[1] \in UsedWords(unique))

\* At most one appended relation for each distinct uncovered word.
OnePerUncovered ==
    \A word \in Uncovered :
        Cardinality({k \in 1..Len(AddedByCoverage) :
                        word \in {AddedByCoverage[k][1], AddedByCoverage[k][3]}}) <= 1

\* C30: the list _extract_all_relations returns holds no (source, kind,
\* target) twice: the coverage step leaves the merge-pass relations unchanged
\* and appends at most one relation per distinct uncovered word, each linking
\* it to a word the merge pass covered, also when a word is in the
\* significant-word list more than once.
C30_NoDuplicateRelations ==
    pc = "done" =>
        /\ NoDuplicate(relations)
        /\ MergeKept
        /\ LinksToMerge
        /\ OnePerUncovered
=============================================================================
